---- MODULE Spec2Model ----
(***************************************************************************)
(* A model of the AI scheduler backend (src/ai_engine.py, src/crud.py,     *)
(* src/main.py, src/schemas.py, src/models.py): the store of persona and   *)
(* schedule rows, the CRUD endpoints, and the two agents                   *)
(* run_recommendation_agent and run_persona_update_agent, each run as a    *)
(* sequence of steps in source order.                                      *)
(*                                                                         *)
(* Representation.  A Python str is a Text: a sequence of tokens, each a   *)
(* TLA+ string.  The whitespace tokens are " " and "\n"; "<fence>" is the  *)
(* Markdown fence of three backquotes and "json" the word that may follow  *)
(* it.  The text of a                                                      *)
(* request prompt is taken character by character.  A date string is a     *)
(* record naming the day it denotes (or that it is malformed); a datetime  *)
(* is a number of hours.  The text a model returns for a recommendation is *)
(* a record <pre, doc, post>: the tokens before a JSON document, the       *)
(* document (by its structure), the tokens after it.                       *)
(***************************************************************************)
EXTENDS Integers, Sequences, FiniteSets, TLC

VARIABLES
    personas,        \* table "personas": sequence of rows, in insertion order
    schedules,       \* table "schedules": set of rows
    nextScheduleId,  \* next primary key of table "schedules"
    gemini_api_key,  \* TRUE iff GEMINI_API_KEY is set (ai_engine.py:28)
    searchConfigured,\* TRUE iff GOOGLE_API_KEY and CUSTOM_SEARCH_ENGINE_ID are set
    rpc,             \* run_recommendation_agent: position
    req,             \* its request
    rPersona,        \* its local "persona"
    rRange,          \* its locals start_dt, end_dt
    rExisting,       \* its local "existing_schedules"
    holidays,        \* its local "holidays"
    weather,         \* its local "weather"
    rNow,            \* the datetime.now() its weather tool has read
    prompt,          \* its local "prompt"
    response,        \* what generate_content gave it
    outcome,         \* what the call returned or raised
    rfail,           \* which terminal failure ended the run ("none" if none)
    rtrace,          \* the calls and log lines of the run, in order
    upc,             \* run_persona_update_agent: position
    uPersona,        \* its local "persona" (the row as its session loaded it)
    uHistory,        \* its local "schedule_history"
    uResponse,       \* what generate_content gave it
    uOutcome,        \* what the call returned or raised
    utrace,          \* the calls of the run, in order
    uInterleaved,    \* TRUE iff another request wrote the persona during the run
    previous,        \* the failure the caller saw last, where the caller keeps it
    wpc,             \* a concurrent POST /api/persona: position
    wSeen,           \* what its get_persona returned (crud.py:13)
    wBody,           \* its body
    upserts,         \* the last consecutive upserts of a caller that keeps them
    listing,         \* what GET /api/schedules returned last, and for which range
    bulk             \* the last bulk-create a caller has kept, and its answer

storeVars == <<personas, schedules, nextScheduleId>>
envVars   == <<gemini_api_key, searchConfigured>>
recVars   == <<rpc, req, rPersona, rRange, rExisting, holidays, weather, rNow,
               prompt, response, outcome, rfail, rtrace>>
updVars   == <<upc, uPersona, uHistory, uResponse, uOutcome, utrace, uInterleaved>>
clientVars == <<wpc, wSeen, wBody, upserts, listing, bulk>>
vars      == <<storeVars, envVars, recVars, updVars, previous, clientVars>>

----------------------------------------------------------------------------
(* Bounds of the model *)

MaxSchedules == 1      \* rows ever inserted into table "schedules"
MaxBulk == 1           \* items of one bulk-create payload
MaxBulkItems == 2      \* items of one bulk-create payload of several items
MaxSnippets == 2       \* result items of one search response
MaxRows == 3           \* schedules, where the schedules alone are modelled

(* Program constants *)

WeatherHorizonDays == 10   \* ai_engine.py:218
HistoryDays == 30          \* ai_engine.py:295
HoursPerDay == 24          \* timedelta.days, ai_engine.py:218

----------------------------------------------------------------------------
(* Python str operations on Text *)

WS == {" ", "\n"}

RECURSIVE lstrip(_)
lstrip(t) == IF t # <<>> /\ Head(t) \in WS THEN lstrip(Tail(t)) ELSE t

RECURSIVE rstrip(_)
rstrip(t) ==
    IF t # <<>> /\ t[Len(t)] \in WS THEN rstrip(SubSeq(t, 1, Len(t) - 1)) ELSE t

strip(t) == rstrip(lstrip(t))

RECURSIVE replace(_, _, _)
replace(t, old, new) ==
    IF Len(t) < Len(old) THEN t
    ELSE IF SubSeq(t, 1, Len(old)) = old
         THEN new \o replace(SubSeq(t, Len(old) + 1, Len(t)), old, new)
         ELSE <<Head(t)>> \o replace(Tail(t), old, new)

contains(t, sub) ==
    \E i \in 1..(Len(t) - Len(sub) + 1) : SubSeq(t, i, i + Len(sub) - 1) = sub

lowerChar(c) ==
    CASE c = "R" -> "r" [] c = "U" -> "u" [] c = "N" -> "n"
      [] c = "P" -> "p" [] c = "A" -> "a" [] c = "K" -> "k"
      [] OTHER -> c

lower(t) == [i \in 1..Len(t) |-> lowerChar(t[i])]

RECURSIVE join(_, _)
join(sep, parts) ==
    IF parts = <<>> THEN <<>>
    ELSE IF Len(parts) = 1 THEN parts[1]
    ELSE parts[1] \o sep \o join(sep, Tail(parts))

Range(f) == {f[i] : i \in DOMAIN f}

----------------------------------------------------------------------------
(* datetime *)

BadDate == [kind |-> "bad", day |-> 0]
Date(d) == [kind |-> "date", day |-> d]

\* datetime.fromisoformat of a date string: midnight of the day, or ValueError.
fromisoformat(s) ==
    IF s.kind = "date" THEN [ok |-> TRUE, dt |-> s.day * HoursPerDay]
    ELSE [ok |-> FALSE, dt |-> 0]

BadTime == [kind |-> "bad", hour |-> 0]
Time(h) == [kind |-> "time", hour |-> h]

\* datetime.fromisoformat of f"{date} {time}" (main.py:153-156).
fromisoformat2(d, t) ==
    IF d.kind = "date" /\ t.kind = "time"
    THEN [ok |-> TRUE, dt |-> d.day * HoursPerDay + t.hour]
    ELSE [ok |-> FALSE, dt |-> 0]

\* timedelta.days of a difference of datetimes: whole days, rounded down.
days(delta) == delta \div HoursPerDay

----------------------------------------------------------------------------
(* The store: models.py, crud.py *)

None == <<"<None>">>    \* Python None, where a str or a list is optional
Empty == <<>>           \* the empty str ""

\* bool(x) of an Optional[str]
truthy(x) == x # None /\ x # Empty

NoPersona == [id |-> 0, persona_text |-> Empty, preferred_times |-> None,
              focus_duration |-> None, location |-> None, present |-> FALSE]

PersonaColumns == {"persona_text", "preferred_times", "focus_duration", "location"}

\* crud.get_persona: the first row, or None.
get_persona(rows) == IF rows = <<>> THEN NoPersona ELSE rows[1]

\* A commit that writes every assigned column, changed or not.
update_columns_all(row, loaded, fields) ==
    [row EXCEPT !.persona_text = fields.persona_text,
                !.preferred_times = fields.preferred_times,
                !.focus_duration = fields.focus_duration,
                !.location = fields.location]

\* The assignments of crud.py:16-19 followed by commit: the session compares
\* each assigned value with the value it loaded and writes the columns that
\* differ; the other columns keep what the table holds.
update_columns(row, loaded, fields) ==
    [row EXCEPT
       !.persona_text = IF fields.persona_text # loaded.persona_text
                        THEN fields.persona_text ELSE @,
       !.preferred_times = IF fields.preferred_times # loaded.preferred_times
                           THEN fields.preferred_times ELSE @,
       !.focus_duration = IF fields.focus_duration # loaded.focus_duration
                          THEN fields.focus_duration ELSE @,
       !.location = IF fields.location # loaded.location
                    THEN fields.location ELSE @]

\* An upsert that adds a row whether or not one exists.
create_or_update_persona_adding(rows, loaded, fields) ==
    Append(rows, [id |-> Len(rows) + 1,
                  persona_text |-> fields.persona_text,
                  preferred_times |-> fields.preferred_times,
                  focus_duration |-> fields.focus_duration,
                  location |-> fields.location,
                  present |-> TRUE])

\* crud.create_or_update_persona, in a session that has loaded the first row as
\* `loaded` (NoPersona if it has loaded none: it then loads the row as it is).
create_or_update_persona(rows, loaded, fields) ==
    IF get_persona(rows).present
    THEN LET row == get_persona(rows)
             view == IF loaded.present THEN loaded ELSE row
         IN  [rows EXCEPT ![1] = update_columns(row, view, fields)]
    ELSE Append(rows, [id |-> Len(rows) + 1,
                       persona_text |-> fields.persona_text,
                       preferred_times |-> fields.preferred_times,
                       focus_duration |-> fields.focus_duration,
                       location |-> fields.location,
                       present |-> TRUE])

\* crud.py:14-26 in a request whose get_persona (crud.py:13) returned `seen`:
\* the row it saw is updated in place, or, if it saw none, a row is added.
\* The primary key of a row is its position in the table.
commit_persona(rows, seen, fields) ==
    IF seen.present
    THEN [rows EXCEPT ![seen.id] = update_columns(rows[seen.id], seen, fields)]
    ELSE Append(rows, [id |-> Len(rows) + 1,
                       persona_text |-> fields.persona_text,
                       preferred_times |-> fields.preferred_times,
                       focus_duration |-> fields.focus_duration,
                       location |-> fields.location,
                       present |-> TRUE])

\* The rows of `rows` in ascending order of start_datetime (ORDER BY); rows of
\* equal start_datetime in the order of their primary keys.
RECURSIVE order_by_start(_)
order_by_start(rows) ==
    IF rows = {} THEN <<>>
    ELSE LET first == CHOOSE r \in rows :
                        \A o \in rows : \/ r.start_datetime < o.start_datetime
                                        \/ /\ r.start_datetime = o.start_datetime
                                           /\ r.id <= o.id
         IN  <<first>> \o order_by_start(rows \ {first})

\* A query that returns the schedules that overlap the range, in order.
get_schedules_by_date_range_overlapping(rows, start_date, end_date) ==
    order_by_start({r \in rows : /\ r.start_datetime <= end_date
                                 /\ r.end_datetime >= start_date})

\* crud.get_schedules_by_date_range
get_schedules_by_date_range(rows, start_date, end_date) ==
    order_by_start({r \in rows : /\ r.start_datetime >= start_date
                                 /\ r.end_datetime <= end_date})

----------------------------------------------------------------------------
(* The agent's tools: ai_engine.py section 3 *)

\* ai_engine.py:21-22; a Hangul syllable is written as its code point.
OUTDOOR_KEYWORDS ==
    { <<"r","u","n">>, <<"h","i","k","e">>, <<"o","u","t","s","i","d","e">>,
      <<"p","i","c","n","i","c">>, <<"w","a","l","k">>,
      <<"c","y","c","l","i","n","g">>, <<"p","a","r","k">>,
      <<"U+B2EC","U+B9AC","U+AE30">>, <<"U+B4F1","U+C0B0">>, <<"U+C0B0","U+CC45">>, <<"U+C18C","U+D48D">>,
      <<"U+C57C","U+C678">>, <<"U+C790","U+C804","U+AC70">>, <<"U+ACF5","U+C6D0">> }

\* any(keyword in req.prompt.lower() for keyword in OUTDOOR_KEYWORDS)
is_outdoor(text) == \E keyword \in OUTDOOR_KEYWORDS : contains(lower(text), keyword)

NotConfiguredMsg ==
    <<"Web search is not configured. GOOGLE_API_KEY or CUSTOM_SEARCH_ENGINE_ID is missing.">>
NoResultsMsg == <<"No relevant information found.">>
HttpFailedMsg(status) == <<"Web search failed with HTTP error: ", status>>
UnexpectedMsg == <<"An unexpected error occurred during web search.">>
OutOfRangeMsg ==
    <<"Weather forecast is only available for the near future (within 10 days).">>
HolidaysNotSetMsg == <<"Not available. User location not set.">>
WeatherNotSetMsg ==
    <<"Not available. User location not set or not an outdoor activity.">>

\* What the search provider does with one request: a result with items (each
\* with its snippet), a result without items, an HttpError, another exception.
RECURSIVE SeqsUpTo(_, _)
SeqsUpTo(S, n) ==
    IF n = 0 THEN {<<>>}
    ELSE LET shorter == SeqsUpTo(S, n - 1)
         IN  shorter \cup {Append(q, x) : q \in shorter, x \in S}

SnippetTexts == { <<"rain", "\n", "likely", " ">> }

ProviderOutcomes ==
    {[kind |-> "items", snippets |-> q, status |-> ""] :
        q \in {<<>>} \cup (SeqsUpTo(SnippetTexts, MaxSnippets)
                              \ SeqsUpTo(SnippetTexts, MaxSnippets - 1))}
    \cup {[kind |-> "no_items", snippets |-> <<>>, status |-> ""],
          [kind |-> "http_error", snippets |-> <<>>, status |-> "403"],
          [kind |-> "exception", snippets |-> <<>>, status |-> ""]}

\* What a call of a search tool does: it raises or returns `value`, having
\* entered _execute_web_search or not and sent `requests` requests.
SearchReturn(text, n) ==
    [raised |-> FALSE, value |-> text, requests |-> n, entered |-> TRUE]
SearchRaise(n) ==
    [raised |-> TRUE, value |-> Empty, requests |-> n, entered |-> TRUE]

\* _execute_web_search without the handler of ai_engine.py:205-207
execute_web_search_unguarded(configured, o) ==
    IF ~configured THEN SearchReturn(NotConfiguredMsg, 0)
    ELSE CASE o.kind = "no_items" -> SearchReturn(NoResultsMsg, 1)
           [] o.kind = "items" ->
                SearchReturn(strip(replace(join(<<" ">>, o.snippets),
                                           <<"\n">>, <<" ">>)), 1)
           [] o.kind = "http_error" -> SearchReturn(HttpFailedMsg(o.status), 1)
           [] OTHER -> SearchRaise(1)

\* An _execute_web_search that sends its request again after an HttpError.
execute_web_search_retrying(configured, o) ==
    IF ~configured THEN SearchReturn(NotConfiguredMsg, 0)
    ELSE CASE o.kind = "no_items" -> SearchReturn(NoResultsMsg, 1)
           [] o.kind = "items" ->
                SearchReturn(strip(replace(join(<<" ">>, o.snippets),
                                           <<"\n">>, <<" ">>)), 1)
           [] o.kind = "http_error" -> SearchReturn(HttpFailedMsg(o.status), 2)
           [] OTHER -> SearchReturn(UnexpectedMsg, 1)

\* _execute_web_search: what it returns (or that it raises) and how many
\* requests it sends, by the provider's outcome.
execute_web_search(configured, o) ==
    IF ~configured THEN SearchReturn(NotConfiguredMsg, 0)
    ELSE CASE o.kind = "no_items" -> SearchReturn(NoResultsMsg, 1)
           [] o.kind = "items" ->
                SearchReturn(strip(replace(join(<<" ">>, o.snippets),
                                           <<"\n">>, <<" ">>)), 1)
           [] o.kind = "http_error" -> SearchReturn(HttpFailedMsg(o.status), 1)
           [] OTHER -> SearchReturn(UnexpectedMsg, 1)

\* A holiday search that lets the provider's errors through to its caller.
search_public_holidays_raising(configured, o) ==
    IF configured /\ o.kind \in {"http_error", "exception"}
    THEN SearchRaise(1)
    ELSE execute_web_search(configured, o)

\* _search_public_holidays
search_public_holidays(configured, o) == execute_web_search(configured, o)

\* The guard of _search_weather_forecast: (start_date - datetime.now()).days > 10
beyond_horizon(start_date, now) == days(start_date - now) > WeatherHorizonDays

\* _search_weather_forecast without the guard of ai_engine.py:218-219
search_weather_forecast_unguarded(configured, start_date, now, o) ==
    execute_web_search(configured, o)

\* _search_weather_forecast
search_weather_forecast(configured, start_date, now, o) ==
    IF beyond_horizon(start_date, now)
    THEN [SearchReturn(OutOfRangeMsg, 0) EXCEPT !.entered = FALSE]
    ELSE execute_web_search(configured, o)

\* The calls one search tool makes, for the trace of the run: the tool, then
\* _execute_web_search if it is entered, then each request it sends.
SearchEvents(names, res) ==
    <<names[1]>>
    \o (IF res.entered THEN <<names[2]>> ELSE <<>>)
    \o [i \in 1..res.requests |-> names[3]]

HolidayEvents ==
    <<"search_public_holidays", "execute_web_search(holidays)",
      "provider_request(holidays)">>
WeatherEvents ==
    <<"search_weather_forecast", "execute_web_search(weather)",
      "provider_request(weather)">>

----------------------------------------------------------------------------
(* The model's output and its parsing: ai_engine.py:269-273, schemas.py:65-74 *)

\* JSON values.  A scalar is [t, s]: its type and, for a string, its Text.
JStr(s) == [t |-> "str", s |-> s]
JNum == [t |-> "num", s |-> Empty]
JNull == [t |-> "null", s |-> Empty]
\* An element of the "schedules" array: an object (its members f) or a string.
JItem(f) == [t |-> "obj", f |-> f]
JItemStr == [t |-> "str", f |-> <<>>]
\* A member of the top-level object: a scalar or an array of elements.
TScalar(v) == [t |-> v.t, s |-> v.s, items |-> <<>>]
TList(items) == [t |-> "list", s |-> Empty, items |-> items]
\* A document: an object (its members f), an array or a number; or none.
JObject(f) == [top |-> "obj", f |-> f]
JArray == [top |-> "list", f |-> <<>>]
NoDoc == [top |-> "none", f |-> <<>>]

\* The document with every `old` removed from the Text of each of its strings.
replace_item(it, old) ==
    [it EXCEPT !.f = [k \in DOMAIN it.f |->
                        [it.f[k] EXCEPT !.s = replace(@, old, Empty)]]]
replace_member(v, old) ==
    [v EXCEPT !.s = replace(@, old, Empty),
              !.items = [i \in DOMAIN v.items |-> replace_item(v.items[i], old)]]
replace_doc(d, old) ==
    [d EXCEPT !.f = [k \in DOMAIN d.f |-> replace_member(d.f[k], old)]]

\* The model's text <pre, doc, post>; without a document all of it is pre.
Raw(pre, doc, post) == [pre |-> pre, doc |-> doc, post |-> post]

\* str.strip() of the whole text
strip_raw(r) ==
    IF r.doc = NoDoc THEN Raw(strip(r.pre \o r.post), NoDoc, Empty)
    ELSE Raw(lstrip(r.pre), r.doc, rstrip(r.post))

\* str.replace(old, "") of the whole text: every occurrence, also those inside
\* the strings of the document.
replace_raw(r, old) ==
    Raw(replace(r.pre, old, Empty),
        replace_doc(r.doc, old),
        replace(r.post, old, Empty))

Fence == <<"<fence>">>                \* three backquotes
FenceJson == <<"<fence>", "json">>    \* three backquotes and the word json

\* The cleaning of ai_engine.py:269: strip, remove every FenceJson, remove
\* every Fence, strip.
clean_response(r) ==
    strip_raw(replace_raw(replace_raw(strip_raw(r), FenceJson), Fence))

\* json.loads: the document, when nothing but whitespace surrounds it.
json_loads(r) ==
    IF r.doc # NoDoc /\ lstrip(r.pre) = Empty /\ lstrip(r.post) = Empty
    THEN [ok |-> TRUE, doc |-> r.doc, msg |-> ""]
    ELSE [ok |-> FALSE, doc |-> NoDoc,
          msg |-> IF r.doc # NoDoc /\ lstrip(r.pre) = Empty
                  THEN "Extra data: line 1" ELSE "Expecting value: line 1"]

\* schemas.AIRecommendationResponseSchedule
ItemKeys == {"title", "date", "start_time", "end_time", "reason"}
\* schemas.AIRecommendationResponse
ResponseKeys == {"schedules", "summary"}

NoValue == [schedules |-> <<>>, summary |-> Empty]

\* An element validates as AIRecommendationResponseSchedule: an object with
\* the five members, each a string; other members are ignored.
item_valid(it) ==
    /\ it.t = "obj"
    /\ ItemKeys \subseteq DOMAIN it.f
    /\ \A k \in ItemKeys : it.f[k].t = "str"

\* A validation that forbids members the schema does not declare.
response_valid_forbid_extra(doc) ==
    /\ DOMAIN doc.f = ResponseKeys
    /\ doc.f.schedules.t = "list"
    /\ \A i \in DOMAIN doc.f.schedules.items : item_valid(doc.f.schedules.items[i])
    /\ doc.f.summary.t = "str"

\* The keyword arguments validate as AIRecommendationResponse.
response_valid(doc) ==
    /\ ResponseKeys \subseteq DOMAIN doc.f
    /\ doc.f.schedules.t = "list"
    /\ \A i \in DOMAIN doc.f.schedules.items : item_valid(doc.f.schedules.items[i])
    /\ doc.f.summary.t = "str"

\* The validated model: the declared fields, nothing else.
response_value(doc) ==
    [schedules |-> [i \in DOMAIN doc.f.schedules.items |->
                      [k \in ItemKeys |-> doc.f.schedules.items[i].f[k].s]],
     summary |-> doc.f.summary.s]

\* schemas.AIRecommendationResponse called with the members of "result" as its
\* keyword arguments (ai_engine.py:273)
AIRecommendationResponse(doc) ==
    IF doc.top # "obj"
    THEN [ok |-> FALSE, value |-> NoValue,
          msg |-> "argument after ** must be a mapping"]
    ELSE IF response_valid(doc)
    THEN [ok |-> TRUE, value |-> response_value(doc), msg |-> ""]
    ELSE [ok |-> FALSE, value |-> NoValue,
          msg |-> "validation error for AIRecommendationResponse"]

----------------------------------------------------------------------------
(* Prompt building: ai_engine.py:111-147 *)

\* _format_schedules_for_prompt: the fixed line, or a line per schedule.
format_schedules_for_prompt(list) ==
    [text |-> IF list = <<>> THEN <<"No existing schedules.">> ELSE Empty,
     lines |-> [i \in DOMAIN list |->
                  [title |-> list[i].title, from |-> list[i].start_datetime,
                   to |-> list[i].end_datetime]]]

\* _format_persona_for_prompt
format_persona_for_prompt(persona) ==
    [persona |-> persona.persona_text,
     preferred_times |->
        IF persona.preferred_times = None THEN Empty
        ELSE join(<<", ">>, [i \in DOMAIN persona.preferred_times |->
                               <<persona.preferred_times[i]>>]),
     focus_duration |-> persona.focus_duration,
     location_info |-> IF truthy(persona.location)
                       THEN <<"\n- Location: ">> \o persona.location ELSE Empty]

\* _build_final_prompt: FINAL_RECOMMENDATION_PROMPT_TEMPLATE with its fields.
build_final_prompt(persona, list, request, holidays_, weather_) ==
    [persona_details |-> format_persona_for_prompt(persona),
     holidays |-> holidays_,
     weather |-> weather_,
     existing_schedules |-> format_schedules_for_prompt(list),
     user_prompt |-> request.prompt,
     start_date |-> request.start_date,
     end_date |-> request.end_date]

NoPrompt == build_final_prompt(NoPersona, <<>>,
               [prompt |-> Empty, start_date |-> BadDate, end_date |-> BadDate],
               Empty, Empty)

----------------------------------------------------------------------------
(* Inputs *)

\* Request texts, character by character.
Prompts == { <<"R","U","N">>, <<"n","a","p">> }
MorePrompts ==
    Prompts \cup { <<"U+C0B0","U+CC45">>, <<"s","p","a","r","k","s">>, Empty }

StartDates == {BadDate, Date(0), Date(WeatherHorizonDays + 1)}
EndDates == {BadDate, Date(WeatherHorizonDays + 2)}

Requests == [prompt : Prompts, start_date : StartDates, end_date : EndDates]
MoreRequests == [prompt : MorePrompts, start_date : StartDates, end_date : EndDates]
NoRequest == [prompt |-> Empty, start_date |-> BadDate, end_date |-> BadDate]

\* Readings of datetime.now(): midnight and noon of day 0.
Nows == {0, HoursPerDay \div 2}

\* Model outputs for a recommendation.
GoodItem ==
    JItem([title |-> JStr(<<"Project Planning">>), date |-> JStr(<<"2025-11-20">>),
           start_time |-> JStr(<<"19:30">>), end_time |-> JStr(<<"21:30">>),
           reason |-> JStr(<<"Evening is a preferred time">>)])
GoodSummary == TScalar(JStr(<<"ok">>))
Without(f, k) == [x \in (DOMAIN f) \ {k} |-> f[x]]
Obj(sched, summ) == JObject([schedules |-> sched, summary |-> summ])

DocEmpty == Obj(TList(<<>>), GoodSummary)
DocOne == Obj(TList(<<GoodItem>>), GoodSummary)
DocFenceInSummary ==
    Obj(TList(<<>>), TScalar(JStr(<<"wrap code in ", "<fence>", " marks">>)))
DocFenceInItem ==
    Obj(TList(<<JItem([GoodItem.f EXCEPT
                         !.reason = JStr(<<"see ", "<fence>", "json", " block">>)])>>),
        GoodSummary)
\* Documents that have exactly the keys of the schema, with values of its types.
WellFormedDocs == {DocEmpty, DocOne, DocFenceInSummary, DocFenceInItem}

DocExtraTop == JObject(DocOne.f @@ [note |-> GoodSummary])
DocExtraInItem ==
    Obj(TList(<<JItem(GoodItem.f @@ [priority |-> JStr(<<"high">>)])>>), GoodSummary)
ExtraKeyDocs == {DocExtraTop, DocExtraInItem}

DocNoSummary == JObject([schedules |-> TList(<<GoodItem>>)])
DocNoSchedules == JObject([summary |-> GoodSummary])
DocItemNoReason ==
    Obj(TList(<<JItem(Without(GoodItem.f, "reason"))>>), GoodSummary)
MissingKeyDocs == {DocNoSummary, DocNoSchedules, DocItemNoReason}

DocSummaryNum == Obj(TList(<<>>), TScalar(JNum))
DocSummaryNull == Obj(TList(<<GoodItem>>), TScalar(JNull))
DocSchedulesStr == Obj(TScalar(JStr(<<"none">>)), GoodSummary)
DocItemTitleNum ==
    Obj(TList(<<JItem([GoodItem.f EXCEPT !.title = JNum])>>), GoodSummary)
DocItemStr == Obj(TList(<<GoodItem, JItemStr>>), GoodSummary)
WrongTypeDocs ==
    {DocSummaryNum, DocSummaryNull, DocSchedulesStr, DocItemTitleNum, DocItemStr}

Docs == WellFormedDocs \cup ExtraKeyDocs \cup MissingKeyDocs \cup WrongTypeDocs
            \cup {JArray}

Bare(d) == Raw(Empty, d, Empty)
Fenced(d) == Raw(<<"<fence>", "json", "\n">>, d, <<"\n", "<fence>">>)
PlainFenced(d) == Raw(<<"\n", "<fence>", "\n">>, d, <<"\n", "<fence>", "\n">>)
Chatty(d) == Raw(<<"Here is your plan:", "\n">>, d, Empty)
NotJson == Raw(<<"not json">>, NoDoc, Empty)

RawOutputs ==
    {Fenced(d) : d \in Docs}
    \cup {Bare(DocOne), PlainFenced(DocOne), Chatty(DocOne), NotJson,
          Raw(Empty, NoDoc, Empty)}

\* What generate_content and response.text do: the call raises (with a message),
\* the response has no text (response.text raises ValueError), or there is text.
InvocationErrors == {"503 Service Unavailable", "Expecting value: line 1"}

ModelOutcomesOf(raws) ==
    {[kind |-> "raise", msg |-> m, raw |-> NotJson] : m \in InvocationErrors}
    \cup {[kind |-> "no_text", msg |-> "", raw |-> NotJson]}
    \cup {[kind |-> "text", msg |-> "", raw |-> r] : r \in raws}

ModelOutcomes == ModelOutcomesOf({Fenced(DocOne), NotJson, Fenced(DocNoSummary)})
MoreModelOutcomes == ModelOutcomesOf(RawOutputs)

\* Model outputs for a persona update, as Text.
PersonaOutputs == { <<" ", "A night owl developer", "\n">>, <<"\n">> }

PersonaModelOutcomes ==
    {[kind |-> "raise", msg |-> m, text |-> Empty] : m \in InvocationErrors}
    \cup {[kind |-> "text", msg |-> "", text |-> t] : t \in PersonaOutputs}

\* Bodies of POST /api/persona (schemas.PersonaCreate).
DefaultPersona ==
    [persona_text |-> <<"A diligent office worker">>,
     preferred_times |-> <<"morning", "evening">>,
     focus_duration |-> <<"1hour">>,
     location |-> <<"Seoul, Korea">>]

PersonaPayloads ==
    { [persona_text |-> <<"X">>, preferred_times |-> None,
       focus_duration |-> None, location |-> None],
      [persona_text |-> <<"X">>, preferred_times |-> <<"evening", "night">>,
       focus_duration |-> <<"2hour+">>, location |-> Empty] }

\* persona_text is a str without constraint: the empty str validates too.
MorePersonaPayloads ==
    PersonaPayloads \cup
      { [persona_text |-> Empty, preferred_times |-> None,
         focus_duration |-> None, location |-> <<"Busan, Korea">>] }

\* Bodies of POST /api/schedules (schemas.ScheduleCreate): one inside the
\* requested period, one on its last day, and one that starts on the last day
\* and ends before it starts (the two datetimes are validated one by one).
SchedulePayloads ==
    { [title |-> "Weekly sync", start_datetime |-> 10, end_datetime |-> 11],
      [title |-> "Retro",
       start_datetime |-> (WeatherHorizonDays + 2) * HoursPerDay + 9,
       end_datetime |-> (WeatherHorizonDays + 2) * HoursPerDay + 10],
      [title |-> "Backwards",
       start_datetime |-> (WeatherHorizonDays + 2) * HoursPerDay + 9,
       end_datetime |-> 11] }

\* Items of a body of POST /api/schedules/bulk-create.
BulkItems ==
    { [title |-> "Review", date |-> Date(1), start_time |-> Time(14),
       end_time |-> Time(15), reason |-> <<"AI-suggested">>],
      [title |-> "Refactor", date |-> Date(1), start_time |-> Time(10),
       end_time |-> BadTime, reason |-> None] }

BulkPayloads == SeqsUpTo(BulkItems, MaxBulk)

\* More items, for payloads of several items.
MoreBulkItems ==
    BulkItems \cup
      { [title |-> "Walk", date |-> Date(2), start_time |-> Time(9),
         end_time |-> Time(10), reason |-> <<"Fresh air">>],
        [title |-> "Plan", date |-> BadDate, start_time |-> Time(9),
         end_time |-> Time(10), reason |-> <<"Next week">>] }

----------------------------------------------------------------------------
(* Initial state: the tables just created (main.py:15), no request in flight *)

NoRange == [start |-> 0, end |-> 0]
NotRead == -1
NoResponse == Raw(Empty, NoDoc, Empty)
NoOutcome == [kind |-> "none", status |-> 0, detail |-> Empty, value |-> NoValue]
NoBody == [persona_text |-> Empty, preferred_times |-> None,
           focus_duration |-> None, location |-> None]
NoListing == [asked |-> FALSE, start |-> 0, end |-> 0, rows |-> <<>>]
NoBulk == [asked |-> FALSE, payload |-> <<>>, status |-> 0, first |-> 0]
NoPrevious == [fail |-> "none", status |-> 0, detail |-> Empty]
Ok(v) == [kind |-> "ok", status |-> 200, detail |-> Empty, value |-> v]
Error(status, detail) ==
    [kind |-> "error", status |-> status, detail |-> detail, value |-> NoValue]
\* An exception that is no HTTPException leaves the endpoint: the transport
\* answers 500 with its own text.
Unhandled == Error(500, <<"Internal Server Error">>)

NoUpdOutcome == [kind |-> "none", status |-> 0, detail |-> Empty, persona |-> NoPersona]

Init ==
    /\ personas = <<>>
    /\ schedules = {}
    /\ nextScheduleId = 1
    /\ gemini_api_key \in BOOLEAN
    /\ searchConfigured \in BOOLEAN
    /\ rpc = "idle"
    /\ req = NoRequest
    /\ rPersona = NoPersona
    /\ rRange = NoRange
    /\ rExisting = <<>>
    /\ holidays = Empty
    /\ weather = Empty
    /\ rNow = NotRead
    /\ prompt = NoPrompt
    /\ response = NoResponse
    /\ outcome = NoOutcome
    /\ rfail = "none"
    /\ rtrace = <<>>
    /\ upc = "idle"
    /\ uPersona = NoPersona
    /\ uHistory = <<>>
    /\ uResponse = Empty
    /\ uOutcome = NoUpdOutcome
    /\ utrace = <<>>
    /\ uInterleaved = FALSE
    /\ previous = NoPrevious
    /\ wpc = "idle"
    /\ wSeen = NoPersona
    /\ wBody = NoBody
    /\ upserts = <<>>
    /\ listing = NoListing
    /\ bulk = NoBulk

----------------------------------------------------------------------------
(* Requests of other clients: main.py *)

\* A request of another client is interleaved with a run of
\* run_recommendation_agent up to the run's last read of the store; the run
\* reads and writes nothing of the store after that.
StoreOpen == rpc \in {"idle", "ParseDateRange", "FetchSchedules"}

\* seed_initial_data (main.py:17-37), at the start of a process: it writes when
\* the table holds no persona.
Seed ==
    /\ StoreOpen
    /\ Len(personas) = 0
    /\ personas' = create_or_update_persona(personas, NoPersona, DefaultPersona)
    /\ upserts' = <<>>
    /\ UNCHANGED <<schedules, nextScheduleId, envVars, recVars, updVars, previous,
                   wpc, wSeen, wBody, listing, bulk>>

\* The last two of the upserts a caller has kept.
LastTwo(q) == IF Len(q) > 2 THEN Tail(q) ELSE q

\* create_or_update_persona_endpoint (main.py:64-81), its call of
\* crud.create_or_update_persona not interleaved with another write.  A caller
\* that keeps what its upserts returned (keeps = TRUE) now holds this one.
PersonaEndpoint(body, keeps) ==
    /\ StoreOpen
    /\ personas' = create_or_update_persona(personas, NoPersona, body)
    /\ uInterleaved' = (uInterleaved \/ upc # "idle")
    /\ upserts' = IF keeps
                  THEN LastTwo(Append(upserts,
                          [fields |-> body, row |-> get_persona(personas'),
                           count |-> Len(personas')]))
                  ELSE upserts
    /\ UNCHANGED <<schedules, nextScheduleId, envVars, recVars, previous,
                   wpc, wSeen, wBody, listing, bulk,
                   upc, uPersona, uHistory, uResponse, uOutcome, utrace>>

\* A POST /api/persona that runs while other requests run: its
\* get_persona (crud.py:13) ...
WriterLoad(body) ==
    /\ wpc = "idle"
    /\ wSeen' = get_persona(personas)
    /\ wBody' = body
    /\ wpc' = "loaded"
    /\ UNCHANGED <<storeVars, envVars, recVars, updVars, previous, upserts, listing, bulk>>

\* ... and, after steps of other requests, its write and commit (crud.py:14-25).
WriterCommit ==
    /\ wpc = "loaded"
    /\ StoreOpen
    /\ personas' = commit_persona(personas, wSeen, wBody)
    /\ uInterleaved' = (uInterleaved \/ upc # "idle")
    /\ wpc' = "idle"
    /\ wSeen' = NoPersona
    /\ wBody' = NoBody
    /\ upserts' = <<>>
    /\ UNCHANGED <<schedules, nextScheduleId, envVars, recVars, previous, listing, bulk,
                   upc, uPersona, uHistory, uResponse, uOutcome, utrace>>

\* crud.create_schedule (crud.py:36-41) of a validated body
NewSchedule(id, title, start, end, ai, reason) ==
    [id |-> id, title |-> title, start_datetime |-> start, end_datetime |-> end,
     is_ai_generated |-> ai, ai_reason |-> reason, is_completed |-> FALSE]

\* create_schedule_endpoint (main.py:103-120)
CreateSchedule(body, limit) ==
    /\ StoreOpen
    /\ nextScheduleId <= limit
    /\ schedules' = schedules \cup
          {NewSchedule(nextScheduleId, body.title, body.start_datetime,
                       body.end_datetime, FALSE, None)}
    /\ nextScheduleId' = nextScheduleId + 1
    /\ UNCHANGED <<personas, envVars, recVars, updVars, previous, clientVars>>

\* A loop that leaves out the items that do not parse and creates the others.
RECURSIVE bulk_items_skipping(_, _)
bulk_items_skipping(payload, id) ==
    IF payload = <<>> THEN [ok |-> TRUE, rows |-> {}]
    ELSE LET s == Head(payload)
             start == fromisoformat2(s.date, s.start_time)
             end == fromisoformat2(s.date, s.end_time)
         IN  IF start.ok /\ end.ok
             THEN [ok |-> TRUE,
                   rows |-> {NewSchedule(id, s.title, start.dt, end.dt, TRUE,
                                         s.reason)}
                            \cup bulk_items_skipping(Tail(payload), id + 1).rows]
             ELSE bulk_items_skipping(Tail(payload), id)

\* The loop of bulk_create_schedules_endpoint (main.py:150-167): the items to
\* create, or the failure of the first item that does not parse.
RECURSIVE bulk_items(_, _)
bulk_items(payload, id) ==
    IF payload = <<>> THEN [ok |-> TRUE, rows |-> {}]
    ELSE LET s == Head(payload)
             start == fromisoformat2(s.date, s.start_time)
             end == fromisoformat2(s.date, s.end_time)
             rest == bulk_items(Tail(payload), id + 1)
         IN  IF start.ok /\ end.ok /\ rest.ok
             THEN [ok |-> TRUE,
                   rows |-> {NewSchedule(id, s.title, start.dt, end.dt, TRUE,
                                         s.reason)} \cup rest.rows]
             ELSE [ok |-> FALSE, rows |-> {}]

\* bulk_create_schedules_endpoint (main.py:122-169) and crud.bulk_create_schedules
BulkCreate(payload, limit, keeps) ==
    /\ StoreOpen
    /\ nextScheduleId + Len(payload) <= limit + 1
    /\ LET made == bulk_items(payload, nextScheduleId)
       IN  /\ IF made.ok
              THEN /\ schedules' = schedules \cup made.rows
                   /\ nextScheduleId' = nextScheduleId + Cardinality(made.rows)
              ELSE UNCHANGED <<schedules, nextScheduleId>>
           /\ bulk' = IF keeps
                      THEN [asked |-> TRUE, payload |-> payload,
                            status |-> IF made.ok THEN 200 ELSE 400,
                            first |-> nextScheduleId]
                      ELSE bulk
    /\ UNCHANGED <<personas, envVars, recVars, updVars, previous,
                   wpc, wSeen, wBody, upserts, listing>>

\* Ranges of GET /api/schedules.
RangeStarts == {0, 11}
RangeEnds == {11, HoursPerDay + 14, HoursPerDay + 15,
              (WeatherHorizonDays + 3) * HoursPerDay}

\* read_schedules_endpoint (main.py:172-177)
ReadSchedules(start_date, end_date) ==
    /\ listing' = [asked |-> TRUE, start |-> start_date, end |-> end_date,
                   rows |-> get_schedules_by_date_range(schedules, start_date,
                                                        end_date)]
    /\ UNCHANGED <<storeVars, envVars, recVars, updVars, previous,
                   wpc, wSeen, wBody, upserts, bulk>>

\* delete_schedule_endpoint (main.py:217-225) of a row that exists
DeleteSchedule(id) ==
    /\ StoreOpen
    /\ \E row \in schedules : row.id = id /\ schedules' = schedules \ {row}
    /\ UNCHANGED <<personas, nextScheduleId, envVars, recVars, updVars, previous, clientVars>>

----------------------------------------------------------------------------
(* run_recommendation_agent: ai_engine.py:228-284 *)

PersonaNotSetMsg == <<"Persona not set. Please create a persona first.">>
\* The detail of the persona error, given for a malformed date as well.
InvalidDateMsgAsPersonaMsg == PersonaNotSetMsg
InvalidDateMsg == <<"Invalid date format. Use YYYY-MM-DD.">>
KeyNotConfiguredMsg == <<"GEMINI_API_KEY is not configured.">>
RecommendFailedMsg(e) == <<"Failed to get recommendation from AI: ", e>>

\* A lookup that hands the caller whatever crud.get_persona returned.
get_user_persona_unchecked(rows) ==
    [raised |-> FALSE, persona |-> get_persona(rows)]

\* _get_user_persona: the persona, or HTTPException(400).
get_user_persona(rows) ==
    [raised |-> ~get_persona(rows).present, persona |-> get_persona(rows)]

\* The try block of ai_engine.py:234-238.
parse_date_range(request) ==
    LET s == fromisoformat(request.start_date)
        e == fromisoformat(request.end_date)
    IN  [ok |-> s.ok /\ e.ok, range |-> [start |-> s.dt, end |-> e.dt]]

\* A branch that tests the location against None alone.
wants_holidays_unless_none(persona) == persona.location # None

\* The branch of ai_engine.py:246
wants_holidays(persona) == truthy(persona.location)

\* A weather branch that looks at the location alone.
wants_weather_by_location(persona, request) == truthy(persona.location)

\* The branches of ai_engine.py:246 and 250
wants_weather(persona, request) ==
    truthy(persona.location) /\ is_outdoor(request.prompt)

\* ai_engine.py:269-276 on the text of the response: the validated result, or
\* the exception that reaches the handler of line 278.
parse_and_validate(raw) ==
    LET parsed == json_loads(clean_response(raw))
        validated == AIRecommendationResponse(parsed.doc)
    IN  IF ~parsed.ok
        THEN [ok |-> FALSE, value |-> NoValue, msg |-> parsed.msg,
              events |-> <<"json.loads">>]
        ELSE [ok |-> validated.ok, value |-> validated.value,
              msg |-> validated.msg,
              events |-> <<"json.loads", "AIRecommendationResponse">>]

\* The handler of ai_engine.py:278-284, for a response whose text can be read
\* (or no response at all): two log lines, then HTTPException(500).
HandlerEvents == <<"log_error", "log_raw_response">>

RecFail(kind, error, events) ==
    /\ rpc' = "done"
    /\ outcome' = error
    /\ rfail' = kind
    /\ rtrace' = rtrace \o events

\* The call and step FetchPersona (ai_engine.py:233).  The two agents are run
\* one after the other: they share the store alone, and this one only reads it.
RecFetchPersona(request) ==
    /\ rpc = "idle" /\ upc = "idle"
    /\ req' = request
    /\ LET got == get_user_persona(personas)
       IN  IF got.raised
           THEN /\ RecFail("persona_missing", Error(400, PersonaNotSetMsg),
                           <<"get_user_persona">>)
                /\ UNCHANGED rPersona
           ELSE /\ rPersona' = got.persona
                /\ rpc' = "ParseDateRange"
                /\ rtrace' = rtrace \o <<"get_user_persona">>
                /\ UNCHANGED <<outcome, rfail>>
    /\ UNCHANGED <<storeVars, envVars, updVars, previous, clientVars, rRange, rExisting, holidays,
                   weather, rNow, prompt, response>>

\* A step ParseDateRange that notes the error of a malformed date and goes on.
RecParseDateRangeGoingOn ==
    /\ rpc = "ParseDateRange"
    /\ LET parsed == parse_date_range(req)
       IN  /\ rRange' = parsed.range
           /\ rpc' = "FetchSchedules"
           /\ rtrace' = rtrace \o <<"fromisoformat">>
           /\ outcome' = IF parsed.ok THEN outcome ELSE Error(400, InvalidDateMsg)
           /\ rfail' = IF parsed.ok THEN rfail ELSE "bad_date"
    /\ UNCHANGED <<storeVars, envVars, updVars, previous, clientVars, req, rPersona,
                   rExisting, holidays, weather, rNow, prompt, response>>

\* Step ParseDateRange (ai_engine.py:234-238)
RecParseDateRange ==
    /\ rpc = "ParseDateRange"
    /\ LET parsed == parse_date_range(req)
       IN  IF parsed.ok
           THEN /\ rRange' = parsed.range
                /\ rpc' = "FetchSchedules"
                /\ rtrace' = rtrace \o <<"fromisoformat">>
                /\ UNCHANGED <<outcome, rfail>>
           ELSE /\ RecFail("bad_date", Error(400, InvalidDateMsg),
                           <<"fromisoformat">>)
                /\ UNCHANGED rRange
    /\ UNCHANGED <<storeVars, envVars, updVars, previous, clientVars, req, rPersona, rExisting,
                   holidays, weather, rNow, prompt, response>>

\* A step FetchSchedules that looks at the key of the model first.
RecFetchSchedulesKeyFirst ==
    /\ rpc = "FetchSchedules"
    /\ IF ~gemini_api_key
       THEN /\ RecFail("not_configured", Error(500, KeyNotConfiguredMsg), <<>>)
            /\ UNCHANGED rExisting
       ELSE /\ rExisting' = get_schedules_by_date_range(schedules, rRange.start,
                                                       rRange.end)
            /\ rpc' = "MaybeSearchHolidays"
            /\ rtrace' = rtrace \o <<"get_existing_schedules">>
            /\ UNCHANGED <<outcome, rfail>>
    /\ UNCHANGED <<storeVars, envVars, updVars, previous, clientVars, req, rPersona,
                   rRange, holidays, weather, rNow, prompt, response>>

\* Step FetchSchedules (ai_engine.py:240)
RecFetchSchedules ==
    /\ rpc = "FetchSchedules"
    /\ rExisting' = get_schedules_by_date_range(schedules, rRange.start, rRange.end)
    /\ rpc' = "MaybeSearchHolidays"
    /\ rtrace' = rtrace \o <<"get_existing_schedules">>
    /\ UNCHANGED <<storeVars, envVars, updVars, previous, clientVars, req, rPersona, rRange, holidays,
                   weather, rNow, prompt, response, outcome, rfail>>

\* Step MaybeSearchHolidays (ai_engine.py:244, 246-248)
RecMaybeSearchHolidays ==
    /\ rpc = "MaybeSearchHolidays"
    /\ IF wants_holidays(rPersona)
       THEN \E o \in ProviderOutcomes :
              LET res == search_public_holidays(searchConfigured, o)
                  events == SearchEvents(HolidayEvents, res)
              IN  IF res.raised
                  THEN /\ RecFail("search", Unhandled, events)
                       /\ UNCHANGED holidays
                  ELSE /\ holidays' = res.value
                       /\ rpc' = "MaybeSearchWeather"
                       /\ rtrace' = rtrace \o events
                       /\ UNCHANGED <<outcome, rfail>>
       ELSE /\ holidays' = HolidaysNotSetMsg
            /\ rpc' = "MaybeSearchWeather"
            /\ UNCHANGED <<outcome, rfail, rtrace>>
    /\ UNCHANGED <<storeVars, envVars, updVars, previous, clientVars, req, rPersona, rRange, rExisting,
                   weather, rNow, prompt, response>>

\* Step MaybeSearchWeather (ai_engine.py:245, 250-252)
RecMaybeSearchWeather ==
    /\ rpc = "MaybeSearchWeather"
    /\ IF wants_weather(rPersona, req)
       THEN \E now \in Nows, o \in ProviderOutcomes :
              LET res == search_weather_forecast(searchConfigured, rRange.start,
                                                 now, o)
                  events == SearchEvents(WeatherEvents, res)
              IN  /\ rNow' = now
                  /\ IF res.raised
                     THEN /\ RecFail("search", Unhandled, events)
                          /\ UNCHANGED weather
                     ELSE /\ weather' = res.value
                          /\ rpc' = "BuildPrompt"
                          /\ rtrace' = rtrace \o events
                          /\ UNCHANGED <<outcome, rfail>>
       ELSE /\ weather' = WeatherNotSetMsg
            /\ rpc' = "BuildPrompt"
            /\ UNCHANGED <<outcome, rfail, rtrace, rNow>>
    /\ UNCHANGED <<storeVars, envVars, updVars, previous, clientVars, req, rPersona, rRange, rExisting,
                   holidays, prompt, response>>

\* Step BuildPrompt (ai_engine.py:257)
RecBuildPrompt ==
    /\ rpc = "BuildPrompt"
    /\ prompt' = build_final_prompt(rPersona, rExisting, req, holidays, weather)
    /\ rpc' = "InvokeModel"
    /\ rtrace' = rtrace \o <<"build_final_prompt">>
    /\ UNCHANGED <<storeVars, envVars, updVars, previous, clientVars, req, rPersona, rRange, rExisting,
                   holidays, weather, rNow, response, outcome, rfail>>

\* Step InvokeModel (ai_engine.py:261-269): the check of the key,
\* generate_content and the read of response.text.  When response.text raises,
\* hasattr(response, 'text') raises again inside the handler (line 281), and
\* that exception leaves the function.
RecInvokeModel(outcomes) ==
    /\ rpc = "InvokeModel"
    /\ IF ~gemini_api_key
       THEN /\ RecFail("not_configured", Error(500, KeyNotConfiguredMsg), <<>>)
            /\ UNCHANGED response
       ELSE \E m \in outcomes :
              CASE m.kind = "raise" ->
                     /\ RecFail("invocation", Error(500, RecommendFailedMsg(m.msg)),
                                <<"generate_content">> \o HandlerEvents)
                     /\ UNCHANGED response
                [] m.kind = "no_text" ->
                     /\ RecFail("invocation", Unhandled,
                                <<"generate_content", "response.text", "log_error">>)
                     /\ UNCHANGED response
                [] OTHER ->
                     /\ response' = m.raw
                     /\ rpc' = "ParseAndValidate"
                     /\ rtrace' = rtrace \o <<"generate_content", "response.text">>
                     /\ UNCHANGED <<outcome, rfail>>
    /\ UNCHANGED <<storeVars, envVars, updVars, previous, clientVars, req, rPersona, rRange, rExisting,
                   holidays, weather, rNow, prompt>>

\* A step ParseAndValidate that stores the first recommended item before it
\* returns the recommendation.
RecParseAndValidateAndSave ==
    /\ rpc = "ParseAndValidate"
    /\ LET result == parse_and_validate(response)
       IN  IF result.ok
           THEN /\ rpc' = "done"
                /\ outcome' = Ok(result.value)
                /\ rtrace' = rtrace \o result.events
                /\ schedules' =
                     IF result.value.schedules = <<>> THEN schedules
                     ELSE schedules \cup
                            {NewSchedule(nextScheduleId, "Recommended", 0, 1, TRUE,
                                         result.value.schedules[1].reason)}
                /\ UNCHANGED rfail
           ELSE /\ RecFail("validation", Error(500, RecommendFailedMsg(result.msg)),
                           result.events \o HandlerEvents)
                /\ UNCHANGED schedules
    /\ UNCHANGED <<personas, nextScheduleId, envVars, updVars, previous, clientVars, req, rPersona,
                   rRange, rExisting, holidays, weather, rNow, prompt, response>>

\* Step ParseAndValidate and the return (ai_engine.py:269-284)
RecParseAndValidate ==
    /\ rpc = "ParseAndValidate"
    /\ LET result == parse_and_validate(response)
       IN  IF result.ok
           THEN /\ rpc' = "done"
                /\ outcome' = Ok(result.value)
                /\ rtrace' = rtrace \o result.events
                /\ UNCHANGED rfail
           ELSE RecFail("validation", Error(500, RecommendFailedMsg(result.msg)),
                        result.events \o HandlerEvents)
    /\ UNCHANGED <<storeVars, envVars, updVars, previous, clientVars, req, rPersona, rRange, rExisting,
                   holidays, weather, rNow, prompt, response>>

\* The caller has its answer; the locals of the run are gone.  A caller that
\* keeps the failures it sees (keeps = TRUE) now holds this one.
RecReturn(keeps) ==
    /\ rpc = "done"
    /\ previous' = IF keeps /\ outcome.kind = "error"
                    THEN [fail |-> rfail, status |-> outcome.status,
                          detail |-> outcome.detail]
                    ELSE previous
    /\ rpc' = "idle"
    /\ req' = NoRequest
    /\ rPersona' = NoPersona
    /\ rRange' = NoRange
    /\ rExisting' = <<>>
    /\ holidays' = Empty
    /\ weather' = Empty
    /\ rNow' = NotRead
    /\ prompt' = NoPrompt
    /\ response' = NoResponse
    /\ outcome' = NoOutcome
    /\ rfail' = "none"
    /\ rtrace' = <<>>
    /\ UNCHANGED <<storeVars, envVars, updVars, clientVars>>

\* The steps between the call and the return.
RecSteps(outcomes) ==
    \/ RecParseDateRange
    \/ RecFetchSchedules
    \/ RecMaybeSearchHolidays
    \/ RecMaybeSearchWeather
    \/ RecBuildPrompt
    \/ RecInvokeModel(outcomes)
    \/ RecParseAndValidate

RecNext ==
    \/ \E request \in Requests : RecFetchPersona(request)
    \/ RecSteps(ModelOutcomes)
    \/ RecReturn(FALSE)

----------------------------------------------------------------------------
(* run_persona_update_agent: ai_engine.py:287-331 *)

UpdateFailedMsg(e) == <<"Failed to update persona using AI: ", e>>

UpdError(status, detail) ==
    [kind |-> "error", status |-> status, detail |-> detail, persona |-> NoPersona]

\* A PersonaCreate that is given the text alone: its other fields default.
updated_persona_data_text_only(persona, text) ==
    [persona_text |-> strip(text), preferred_times |-> None,
     focus_duration |-> None, location |-> None]

\* schemas.PersonaCreate of ai_engine.py:317-322: the text of the model,
\* stripped, and the three other fields of the persona the run has read.
updated_persona_data(persona, text) ==
    [persona_text |-> strip(text),
     preferred_times |-> persona.preferred_times,
     focus_duration |-> persona.focus_duration,
     location |-> persona.location]

UpdFail(error, events) ==
    /\ upc' = "done"
    /\ uOutcome' = error
    /\ utrace' = utrace \o events

\* A step FetchPersona that stores the default persona when it finds none.
UpdFetchPersonaSeeding ==
    /\ upc = "idle" /\ rpc = "idle"
    /\ uInterleaved' = FALSE
    /\ personas' = IF get_persona(personas).present THEN personas
                   ELSE create_or_update_persona(personas, NoPersona, DefaultPersona)
    /\ uPersona' = get_persona(personas')
    /\ upc' = "FetchScheduleHistory"
    /\ utrace' = utrace \o <<"get_user_persona">>
    /\ UNCHANGED <<schedules, nextScheduleId, envVars, recVars, previous, clientVars,
                   uHistory, uResponse, uOutcome>>

\* The call and step FetchPersona (ai_engine.py:292)
UpdFetchPersona ==
    /\ upc = "idle" /\ rpc = "idle"
    /\ uInterleaved' = FALSE
    /\ LET got == get_user_persona(personas)
       IN  IF got.raised
           THEN /\ UpdFail(UpdError(400, PersonaNotSetMsg), <<"get_user_persona">>)
                /\ UNCHANGED uPersona
           ELSE /\ uPersona' = got.persona
                /\ upc' = "FetchScheduleHistory"
                /\ utrace' = utrace \o <<"get_user_persona">>
                /\ UNCHANGED uOutcome
    /\ UNCHANGED <<storeVars, envVars, recVars, previous, clientVars, uHistory, uResponse>>

\* Steps ComputeHistoryWindow, FetchScheduleHistory and BuildPrompt
\* (ai_engine.py:294-301)
UpdFetchHistory ==
    /\ upc = "FetchScheduleHistory"
    /\ \E now \in Nows :
         uHistory' = get_schedules_by_date_range(schedules,
                        now - HistoryDays * HoursPerDay, now)
    /\ upc' = "InvokeModel"
    /\ utrace' = utrace \o <<"get_existing_schedules", "build_persona_update_prompt">>
    /\ UNCHANGED <<storeVars, envVars, recVars, previous, clientVars, uPersona, uResponse, uOutcome,
                   uInterleaved>>

\* A step InvokeModel that calls the model without looking at the key.
UpdInvokeModelUnchecked ==
    /\ upc = "InvokeModel"
    /\ \E m \in PersonaModelOutcomes :
         IF m.kind = "raise"
         THEN /\ UpdFail(UpdError(500, UpdateFailedMsg(m.msg)), <<"generate_content">>)
              /\ UNCHANGED uResponse
         ELSE /\ uResponse' = m.text
              /\ upc' = "MergeAndPersist"
              /\ utrace' = utrace \o <<"generate_content">>
              /\ UNCHANGED uOutcome
    /\ UNCHANGED <<storeVars, envVars, recVars, previous, clientVars, uPersona,
                   uHistory, uInterleaved>>

\* A step InvokeModel that stores an empty text when the call of the model
\* raises.
UpdInvokeModelClearing ==
    /\ upc = "InvokeModel"
    /\ IF ~gemini_api_key
       THEN /\ UpdFail(UpdError(500, KeyNotConfiguredMsg), <<>>)
            /\ UNCHANGED <<uResponse, personas>>
       ELSE \E m \in PersonaModelOutcomes :
              IF m.kind = "raise"
              THEN /\ UpdFail(UpdError(500, UpdateFailedMsg(m.msg)),
                              <<"generate_content">>)
                   /\ personas' = create_or_update_persona(personas, uPersona,
                                     updated_persona_data(uPersona, Empty))
                   /\ UNCHANGED uResponse
              ELSE /\ uResponse' = m.text
                   /\ upc' = "MergeAndPersist"
                   /\ utrace' = utrace \o <<"generate_content">>
                   /\ UNCHANGED <<uOutcome, personas>>
    /\ UNCHANGED <<schedules, nextScheduleId, envVars, recVars, previous, clientVars,
                   uPersona, uHistory, uInterleaved>>

\* Step InvokeModel (ai_engine.py:305-313)
UpdInvokeModel ==
    /\ upc = "InvokeModel"
    /\ IF ~gemini_api_key
       THEN /\ UpdFail(UpdError(500, KeyNotConfiguredMsg), <<>>)
            /\ UNCHANGED uResponse
       ELSE \E m \in PersonaModelOutcomes :
              IF m.kind = "raise"
              THEN /\ UpdFail(UpdError(500, UpdateFailedMsg(m.msg)),
                              <<"generate_content">>)
                   /\ UNCHANGED uResponse
              ELSE /\ uResponse' = m.text
                   /\ upc' = "MergeAndPersist"
                   /\ utrace' = utrace \o <<"generate_content">>
                   /\ UNCHANGED uOutcome
    /\ UNCHANGED <<storeVars, envVars, recVars, previous, clientVars, uPersona, uHistory, uInterleaved>>

\* Step MergeAndPersist and the return (ai_engine.py:317-327): the session of
\* the run holds the persona as the run has read it.
UpdMergeAndPersist ==
    /\ upc = "MergeAndPersist"
    /\ personas' = create_or_update_persona(personas, uPersona,
                      updated_persona_data(uPersona, uResponse))
    /\ upc' = "done"
    /\ uOutcome' = [kind |-> "ok", status |-> 200, detail |-> Empty,
                    persona |-> get_persona(personas')]
    /\ utrace' = utrace \o <<"create_or_update_persona">>
    /\ upserts' = <<>>
    /\ UNCHANGED <<schedules, nextScheduleId, envVars, recVars, previous, wpc, wSeen, wBody, listing, bulk,
                   uPersona, uHistory, uResponse, uInterleaved>>

\* The caller has its answer; the locals of the run are gone.
UpdReturn ==
    /\ upc = "done"
    /\ upc' = "idle"
    /\ uPersona' = NoPersona
    /\ uHistory' = <<>>
    /\ uResponse' = Empty
    /\ uOutcome' = NoUpdOutcome
    /\ utrace' = <<>>
    /\ uInterleaved' = FALSE
    /\ UNCHANGED <<storeVars, envVars, recVars, previous, clientVars>>

UpdNext ==
    \/ UpdFetchPersona
    \/ UpdFetchHistory
    \/ UpdInvokeModel
    \/ UpdMergeAndPersist
    \/ UpdReturn

----------------------------------------------------------------------------
(* The system *)

ClientNext ==
    \/ Seed
    \/ \E body \in PersonaPayloads : PersonaEndpoint(body, FALSE)
    \/ \E body \in SchedulePayloads : CreateSchedule(body, MaxSchedules)
    \/ \E payload \in BulkPayloads : BulkCreate(payload, MaxSchedules, FALSE)
    \/ \E id \in 1..MaxSchedules : DeleteSchedule(id)

Next == ClientNext \/ RecNext \/ UpdNext

Spec == Init /\ [][Next]_vars

\* run_recommendation_agent alone, on a store that is seeded or not, with more
\* requests and more outputs of the model, for a caller that keeps the failure
\* it saw last.
AgentNext ==
    \/ Seed
    \/ \E request \in MoreRequests : RecFetchPersona(request)
    \/ RecSteps(MoreModelOutcomes)
    \/ RecReturn(TRUE)

SpecAgent == Init /\ [][AgentNext]_vars

\* The steps of a run up to the call of the model.
RecStepsToModel(outcomes) ==
    \/ RecParseDateRange
    \/ RecFetchSchedules
    \/ RecMaybeSearchHolidays
    \/ RecMaybeSearchWeather
    \/ RecBuildPrompt
    \/ RecInvokeModel(outcomes)

\* run_recommendation_agent alone, each call running on to the call of the
\* model: the thread that serves the request is not held back by anything (the
\* function has no loop and waits for nothing but the answers of its calls).
RunsNext ==
    \/ Seed
    \/ \E request \in Requests : RecFetchPersona(request)
    \/ RecSteps(ModelOutcomes)
    \/ RecReturn(FALSE)

SpecRuns == Init /\ [][RunsNext]_vars /\ WF_vars(RecStepsToModel(ModelOutcomes))

\* The writers of the persona, their requests running at the same time: the
\* seed of a starting process, upserts, a concurrent upsert, and
\* run_persona_update_agent.
WritersNext ==
    \/ Seed
    \/ \E body \in MorePersonaPayloads : PersonaEndpoint(body, FALSE)
    \/ \E body \in PersonaPayloads : WriterLoad(body)
    \/ WriterCommit
    \/ UpdNext

SpecWriters == Init /\ [][WritersNext]_vars

\* The requests that read and write the schedules.
SchedulesNext ==
    \/ \E body \in SchedulePayloads : CreateSchedule(body, MaxRows)
    \/ \E payload \in BulkPayloads : BulkCreate(payload, MaxRows, FALSE)
    \/ \E id \in 1..MaxRows : DeleteSchedule(id)
    \/ \E start_date \in RangeStarts, end_date \in RangeEnds :
         ReadSchedules(start_date, end_date)

SpecSchedules == Init /\ [][SchedulesNext]_vars

\* The requests that write the schedules, with bulk-creates of several items,
\* for a caller that keeps the answer to its last bulk-create.
BulkNext ==
    \/ \E body \in SchedulePayloads : CreateSchedule(body, MaxRows)
    \/ \E payload \in SeqsUpTo(MoreBulkItems, MaxBulkItems) :
         BulkCreate(payload, MaxRows, TRUE)
    \/ \E id \in 1..MaxRows : DeleteSchedule(id)

SpecBulk == Init /\ [][BulkNext]_vars

\* Requests that are served one after the other, for a caller that keeps what
\* its upserts returned.
UpsertsNext ==
    \/ Seed
    \/ \E body \in MorePersonaPayloads : PersonaEndpoint(body, TRUE)
    \/ UpdNext

SpecUpserts == Init /\ [][UpsertsNext]_vars

----------------------------------------------------------------------------
(* Properties *)

\* How often the event ev occurs in a trace.
Count(trace, ev) == Cardinality({i \in DOMAIN trace : trace[i] = ev})

\* C1: whenever run_recommendation_agent is called while the store holds no
\* persona, whatever the prompt and the dates of the request, the run ends at
\* once with the error 400 "Persona not set. Please create a persona first.",
\* and the lookup of the persona is the only call it has made: no fetch of
\* schedules, no search, no call of the model.
C1_PersonaMissingFailsFirst ==
    [][(rpc = "idle" /\ rpc' # "idle" /\ personas = <<>>)
         => /\ rpc' = "done"
            /\ outcome' = Error(400, PersonaNotSetMsg)
            /\ rtrace' = <<"get_user_persona">>]_vars

\* A run on a store without persona has failed, its request having a malformed
\* date as well.
C1_Witness ==
    /\ rpc = "done" /\ personas = <<>>
    /\ outcome = Error(400, PersonaNotSetMsg)
    /\ req.start_date = BadDate

\* The run has parsed the text of the model and has ended.
Parsed == rpc = "done" /\ Count(rtrace, "json.loads") = 1

\* How a JSON document deviates from the schema of schemas.py:65-74: a declared
\* member is missing, a member has a value of another type than declared, a
\* member is not declared.
MissingKey(doc) ==
    \/ ~(ResponseKeys \subseteq DOMAIN doc.f)
    \/ /\ "schedules" \in DOMAIN doc.f
       /\ \E i \in DOMAIN doc.f.schedules.items :
            /\ doc.f.schedules.items[i].t = "obj"
            /\ ~(ItemKeys \subseteq DOMAIN doc.f.schedules.items[i].f)
WrongType(doc) ==
    \/ doc.top # "obj"
    \/ "summary" \in DOMAIN doc.f /\ doc.f.summary.t # "str"
    \/ /\ "schedules" \in DOMAIN doc.f
       /\ \/ doc.f.schedules.t # "list"
          \/ \E i \in DOMAIN doc.f.schedules.items :
               LET it == doc.f.schedules.items[i]
               IN  \/ it.t # "obj"
                   \/ \E k \in ItemKeys \cap DOMAIN it.f : it.f[k].t # "str"
ExtraKey(doc) ==
    \/ ~(DOMAIN doc.f \subseteq ResponseKeys)
    \/ /\ "schedules" \in DOMAIN doc.f
       /\ \E i \in DOMAIN doc.f.schedules.items :
            /\ doc.f.schedules.items[i].t = "obj"
            /\ ~(DOMAIN doc.f.schedules.items[i].f \subseteq ItemKeys)

\* The run has ended with the error of the handler of ai_engine.py:278-284.
ValidationFailure ==
    /\ rfail = "validation"
    /\ outcome.kind = "error" /\ outcome.status = 500
    /\ outcome.detail[1] = "Failed to get recommendation from AI: "

\* The text of the model is a JSON document that has exactly the declared
\* members, inside a fence that opens with the word json.
FencedWellFormed(r) ==
    /\ r.doc # NoDoc /\ r = Fenced(r.doc)
    /\ ~MissingKey(r.doc) /\ ~WrongType(r.doc) /\ ~ExtraKey(r.doc)

\* C2: a run that has parsed the model's text ends with a fully validated
\* recommendation or with an error, never with part of a recommendation; text
\* that is not JSON, or JSON without "summary", gives the validation failure;
\* and a well-formed recommendation wrapped in a json fence is returned with the
\* same schedules and the same summary as the document inside the fence.
C2_ValidatedOrError ==
    Parsed =>
      /\ outcome.kind \in {"ok", "error"}
      /\ outcome.kind = "ok" =>
           ~MissingKey(response.doc) /\ ~WrongType(response.doc)
      /\ (response.doc = NoDoc \/ "summary" \notin DOMAIN response.doc.f)
           => ValidationFailure
      /\ FencedWellFormed(response)
           => outcome = Ok(response_value(response.doc))

\* The model has returned a well-formed recommendation in a json fence whose
\* summary holds a fence marker, and the run has returned another summary.
C2_Witness ==
    /\ Parsed /\ FencedWellFormed(response)
    /\ outcome.kind = "ok"
    /\ outcome.value.summary # response.doc.f.summary.s

\* The run has a persona, and has passed the two search steps.
SearchesDone ==
    \/ rpc \in {"BuildPrompt", "InvokeModel", "ParseAndValidate"}
    \/ rpc = "done" /\ Count(rtrace, "build_final_prompt") = 1
LocationAbsent == rPersona.present /\ rPersona.location \in {None, Empty}
LocationPresent == rPersona.present /\ rPersona.location \notin {None, Empty}

SearchCalls == Range(HolidayEvents) \cup Range(WeatherEvents)

\* C3: in a run whose persona has no location (None or the empty string), no
\* search is invoked, for holidays or for weather, whatever the request says,
\* and the prompt is built with holidays = "Not available. User location not
\* set." and weather = "Not available. User location not set or not an outdoor
\* activity.".
C3_NoLocationNoSearch ==
    (rpc # "idle" /\ LocationAbsent) =>
      /\ \A ev \in SearchCalls : Count(rtrace, ev) = 0
      /\ Count(rtrace, "build_final_prompt") = 1 =>
           /\ prompt.holidays = HolidaysNotSetMsg
           /\ prompt.weather = WeatherNotSetMsg

\* The prompt is built for a persona whose location is the empty string and a
\* request that names an outdoor activity.
C3_Witness ==
    /\ Count(rtrace, "build_final_prompt") = 1
    /\ rPersona.present /\ rPersona.location = Empty
    /\ is_outdoor(req.prompt)
    /\ prompt.weather = WeatherNotSetMsg

\* C4 as stated: with a location and an outdoor keyword in the request, for
\* every valid start date, _execute_web_search is invoked exactly once for the
\* holidays and exactly once for the weather.
C4_BothSearchesOnce ==
    (SearchesDone /\ LocationPresent /\ is_outdoor(req.prompt)) =>
      /\ Count(rtrace, "execute_web_search(holidays)") = 1
      /\ Count(rtrace, "execute_web_search(weather)") = 1

\* C4 as the code has it: with a location and an outdoor keyword in the request
\* the holiday tool and the weather tool are called exactly once each; the
\* holiday tool invokes _execute_web_search exactly once; the weather tool
\* invokes it exactly once when the start date is less than 11 whole days after
\* now, and not at all when it is 11 whole days or more after now.
C4_SearchesByStartDate ==
    (SearchesDone /\ LocationPresent /\ is_outdoor(req.prompt)) =>
      /\ Count(rtrace, "search_public_holidays") = 1
      /\ Count(rtrace, "execute_web_search(holidays)") = 1
      /\ Count(rtrace, "search_weather_forecast") = 1
      /\ Count(rtrace, "execute_web_search(weather)") =
           IF rRange.start - rNow >= (WeatherHorizonDays + 1) * HoursPerDay
           THEN 0 ELSE 1

\* Both tools have run for a start date 11 days after now, and the weather tool
\* has not invoked _execute_web_search.
C4_Witness ==
    /\ SearchesDone /\ LocationPresent /\ is_outdoor(req.prompt)
    /\ rRange.start - rNow = (WeatherHorizonDays + 1) * HoursPerDay
    /\ Count(rtrace, "execute_web_search(holidays)") = 1
    /\ Count(rtrace, "execute_web_search(weather)") = 0

\* C5: when the start date is more than 10 days after now, by the exact time
\* elapsed between now and the start date, the weather tool sends no request to
\* the search provider and returns "Weather forecast is only available for the
\* near future (within 10 days).".
C5_BeyondHorizonNoRequest ==
    (Count(rtrace, "search_weather_forecast") = 1
       /\ rRange.start - rNow > WeatherHorizonDays * HoursPerDay) =>
      /\ Count(rtrace, "execute_web_search(weather)") = 0
      /\ Count(rtrace, "provider_request(weather)") = 0
      /\ weather = OutOfRangeMsg

\* The start date is 10 days and 12 hours after now, and the weather tool has
\* sent a request to the provider.
C5_Witness ==
    /\ rRange.start - rNow = WeatherHorizonDays * HoursPerDay + HoursPerDay \div 2
    /\ Count(rtrace, "provider_request(weather)") = 1
    /\ weather # OutOfRangeMsg

\* The tokens of a Text that are not whitespace.
NonWs(t) == SelectSeq(t, LAMBDA x : x \notin WS)

\* t is the concatenation of the snippets of some result: their words in
\* order, no newline, no whitespace at either end.
IsSnippetsText(t) ==
    /\ strip(t) = t
    /\ "\n" \notin Range(t)
    /\ \E q \in SeqsUpTo(SnippetTexts, MaxSnippets) :
         NonWs(t) = NonWs(join(Empty, q))

\* What _execute_web_search may return.
IsSearchResult(t) ==
    \/ t \in {NotConfiguredMsg, NoResultsMsg, UnexpectedMsg}
    \/ \E status \in {"403"} : t = HttpFailedMsg(status)
    \/ IsSnippetsText(t)

\* C6: _execute_web_search never raises; whatever the provider does, it returns
\* a string that is the concatenated snippets, the "not configured" sentinel,
\* the "no relevant information" sentinel or one of the two error sentinels.
C6_SearchNeverRaises ==
    /\ rfail # "search"
    /\ Count(rtrace, "execute_web_search(holidays)") = 1 => IsSearchResult(holidays)
    /\ Count(rtrace, "execute_web_search(weather)") = 1 => IsSearchResult(weather)

\* The provider has failed with an exception during the holiday search and with
\* an HTTP error during the weather search, and the run goes on.
C6_Witness ==
    /\ rpc = "BuildPrompt"
    /\ Count(rtrace, "provider_request(holidays)") = 1 /\ holidays = UnexpectedMsg
    /\ Count(rtrace, "provider_request(weather)") = 1 /\ weather = HttpFailedMsg("403")

\* t is raw without the whitespace at its two ends.
IsTrimOf(t, raw) ==
    /\ t = <<>> \/ (t[1] \notin WS /\ t[Len(t)] \notin WS)
    /\ \E i, j \in 0..Len(raw) :
         /\ i + j <= Len(raw)
         /\ t = SubSeq(raw, i + 1, Len(raw) - j)
         /\ \A k \in 1..i : raw[k] \in WS
         /\ \A k \in (Len(raw) - j + 1)..Len(raw) : raw[k] \in WS

\* C7: after a successful run_persona_update_agent with which no other write
\* of the persona has interleaved, the stored persona has the id, the
\* preferred_times, the focus_duration and the location it had when the run
\* read it, and its persona_text is the output of the model without the
\* whitespace at its ends.
C7_UpdateKeepsOtherFields ==
    (upc = "done" /\ uOutcome.kind = "ok" /\ ~uInterleaved) =>
      LET row == get_persona(personas)
      IN  /\ row.present
          /\ row.id = uPersona.id
          /\ row.preferred_times = uPersona.preferred_times
          /\ row.focus_duration = uPersona.focus_duration
          /\ row.location = uPersona.location
          /\ IsTrimOf(row.persona_text, uResponse)
          /\ uOutcome.persona = row

\* A run has replaced the text of a persona that has preferred times, a focus
\* duration and a location.
C7_Witness ==
    /\ upc = "done" /\ uOutcome.kind = "ok" /\ ~uInterleaved
    /\ get_persona(personas).persona_text # uPersona.persona_text
    /\ get_persona(personas).persona_text # Empty
    /\ get_persona(personas).location = DefaultPersona.location
    /\ get_persona(personas).preferred_times = DefaultPersona.preferred_times

\* C8: no step of run_recommendation_agent, from the call to the return and
\* whatever the outcome, changes the persona or the schedules of the store; a
\* schedule marked as generated by the AI enters the store only by a step of
\* the bulk-create endpoint, which is no step of the agent.
C8_AgentNeverWrites ==
    [][/\ rpc' # rpc => UNCHANGED storeVars
       /\ (\E row \in schedules' \ schedules : row.is_ai_generated)
            => /\ rpc' = rpc
               /\ \E payload \in BulkPayloads :
                    BulkCreate(payload, MaxSchedules, FALSE)]_vars

\* A run has returned a recommendation with an item, and the store holds no
\* schedule.
C8_Witness ==
    /\ rpc = "done" /\ outcome.kind = "ok"
    /\ outcome.value.schedules # <<>>
    /\ schedules = {}

\* C9 as stated: the five failures of run_recommendation_agent are reported
\* with reasons (status and detail) that differ from one failure to another:
\* two runs that have failed in different ways have reported different reasons.
C9_FiveDistinctReasons ==
    (rpc = "done" /\ rfail # "none") =>
      /\ outcome.kind = "error"
      /\ previous.fail \notin {"none", rfail}
           => <<outcome.status, outcome.detail>>
                # <<previous.status, previous.detail>>

\* C9 as the code has it: a missing persona, a malformed date and a model that
\* is not configured are each reported with a reason that no other failure
\* has; a failure of the call of the model and a failure of the validation of
\* its response are both reported with status 500 and the detail "Failed to
\* get recommendation from AI: " followed by the text of the exception (a
\* response without text: the bare 500 of the server), which does not tell
\* the one from the other.
C9_ThreeDistinctReasons ==
    (rpc = "done" /\ rfail # "none") =>
      /\ outcome.kind = "error"
      /\ (previous.fail \notin {"none", rfail}
            /\ {rfail, previous.fail} # {"invocation", "validation"})
           => <<outcome.status, outcome.detail>>
                # <<previous.status, previous.detail>>
      /\ rfail = "persona_missing" => outcome = Error(400, PersonaNotSetMsg)
      /\ rfail = "bad_date" => outcome = Error(400, InvalidDateMsg)
      /\ rfail = "not_configured" => outcome = Error(500, KeyNotConfiguredMsg)
      /\ rfail \in {"invocation", "validation"} =>
           /\ outcome.status = 500
           /\ \/ outcome.detail[1] = "Failed to get recommendation from AI: "
              \/ rfail = "invocation" /\ outcome = Unhandled

\* The validation of a response has failed with the reason with which the call
\* of the model failed in the run before.
C9_Witness ==
    /\ rpc = "done" /\ rfail = "validation" /\ previous.fail = "invocation"
    /\ <<outcome.status, outcome.detail>> = <<previous.status, previous.detail>>

\* C10 as stated: a JSON document of the model that deviates from the schema,
\* by a member that is not declared (at the top or inside an item), by a
\* missing member or by a value of a wrong type, is rejected with the
\* validation failure.
C10_AnyDeviationRejected ==
    (Parsed /\ response.doc # NoDoc
       /\ (ExtraKey(response.doc) \/ MissingKey(response.doc)
             \/ WrongType(response.doc)))
      => ValidationFailure

\* C10 as the code has it: a document with a missing member or a value of a
\* wrong type is rejected with the validation failure; a document that
\* deviates only by members that are not declared, at the top or inside an
\* item, is accepted, and the recommendation is returned without them.
C10_ExtraKeysIgnored ==
    (Parsed /\ response.doc # NoDoc) =>
      /\ (MissingKey(response.doc) \/ WrongType(response.doc)) => ValidationFailure
      /\ (Count(rtrace, "AIRecommendationResponse") = 1
            /\ ExtraKey(response.doc)
            /\ ~MissingKey(response.doc) /\ ~WrongType(response.doc))
           => /\ outcome.kind = "ok"
              /\ DOMAIN outcome.value = ResponseKeys
              /\ \A i \in DOMAIN outcome.value.schedules :
                   DOMAIN outcome.value.schedules[i] = ItemKeys
              /\ outcome.value = response_value(clean_response(response).doc)

\* The model has returned a document with a member "note" beside "schedules"
\* and "summary", and the run has returned a recommendation.
C10_Witness ==
    /\ Parsed /\ response = Fenced(DocExtraTop)
    /\ outcome.kind = "ok"
    /\ outcome.value.schedules # <<>>

\* C11: in every state of the store, whatever the writes of the persona
\* (upserts of the endpoint, the seed, run_persona_update_agent) and however
\* their requests interleave, the store holds at most one persona, and it is
\* the row the first write created (id 1).
C11_AtMostOnePersona ==
    /\ Len(personas) <= 1
    /\ personas # <<>> => personas[1].id = 1

\* Two requests have each found no persona and each added one.
C11_Witness ==
    /\ Len(personas) = 2
    /\ personas[1].id # personas[2].id

\* C12: in every state in which a persona exists, its persona_text is present
\* and is not the empty string, whatever upserts and runs of
\* run_persona_update_agent have happened and whatever text the model returned.
C12_PersonaTextNonEmpty ==
    \A i \in DOMAIN personas : personas[i].persona_text \notin {None, Empty}

\* A run of run_persona_update_agent has succeeded on text of the model that
\* is whitespace alone, and the stored persona_text is the empty string.
C12_Witness ==
    /\ upc = "done" /\ uOutcome.kind = "ok"
    /\ uResponse # Empty /\ strip(uResponse) = Empty
    /\ get_persona(personas).present
    /\ get_persona(personas).persona_text = Empty

\* C13: when create_or_update_persona is called twice in a row with the same
\* fields, the persona after the second call has the id, the persona_text, the
\* preferred_times, the focus_duration and the location it had after the first
\* call, and the table has as many rows as after the first call.
C13_UpsertIdempotent ==
    (Len(upserts) = 2 /\ upserts[1].fields = upserts[2].fields) =>
      /\ upserts[2].row.id = upserts[1].row.id
      /\ \A c \in PersonaColumns : upserts[2].row[c] = upserts[1].row[c]
      /\ \A c \in PersonaColumns : upserts[2].row[c] = upserts[2].fields[c]
      /\ upserts[2].count = upserts[1].count

\* The same body, with preferred times and an empty location, has been
\* upserted twice in a row.
C13_Witness ==
    /\ Len(upserts) = 2 /\ upserts[1].fields = upserts[2].fields
    /\ upserts[2].fields.location = Empty
    /\ upserts[2].row.location = Empty
    /\ upserts[2].row.preferred_times # None
    /\ upserts[2].count = 1

\* C14: whatever the store holds and whatever the range (s, e), the list
\* get_schedules_by_date_range returns holds each stored schedule with
\* start_datetime >= s and end_datetime <= e exactly once, holds no other row,
\* and is in ascending order of start_datetime.
C14_RangeQueryExact ==
    [][listing' # listing =>
         LET got == listing'.rows
             inside == {r \in schedules :
                          /\ r.start_datetime >= listing'.start
                          /\ r.end_datetime <= listing'.end}
         IN  /\ Range(got) = inside
             /\ Len(got) = Cardinality(inside)
             /\ \A i, j \in DOMAIN got :
                  i < j => got[i].start_datetime <= got[j].start_datetime]_vars

\* A listing holds two of three stored schedules, the one stored later first.
C14_Witness ==
    /\ listing.asked /\ Len(listing.rows) = 2
    /\ listing.rows[1].id > listing.rows[2].id
    /\ listing.rows[1].start_datetime < listing.rows[2].start_datetime
    /\ Cardinality(schedules) = 3

C16_UpdateWithoutPersonaFails ==
    [][/\ (upc = "idle" /\ upc' # "idle" /\ personas = <<>>)
            => /\ upc' = "done"
               /\ uOutcome' = UpdError(400, PersonaNotSetMsg)
               /\ utrace' = <<"get_user_persona">>
               /\ personas' = <<>>
       /\ (upc = "done" /\ uOutcome.kind = "error" /\ upc' # upc)
            => personas' = personas]_vars

\* A run of run_persona_update_agent has failed on a store without persona.
C16_Witness ==
    /\ upc = "done" /\ uOutcome = UpdError(400, PersonaNotSetMsg)
    /\ personas = <<>>
    /\ Count(utrace, "generate_content") = 0

\* The step of run_recommendation_agent to which a call or log line belongs:
\* 1 FetchPersona, 2 ParseDateRange, 3 FetchSchedules, 4 MaybeSearchHolidays,
\* 5 MaybeSearchWeather, 6 BuildPrompt, 7 InvokeModel, 8 ParseAndValidate,
\* 9 Return (here: the handler that reports a failure).
StepOf(ev) ==
    CASE ev = "get_user_persona" -> 1
      [] ev = "fromisoformat" -> 2
      [] ev = "get_existing_schedules" -> 3
      [] ev \in Range(HolidayEvents) -> 4
      [] ev \in Range(WeatherEvents) -> 5
      [] ev = "build_final_prompt" -> 6
      [] ev \in {"generate_content", "response.text"} -> 7
      [] ev \in {"json.loads", "AIRecommendationResponse"} -> 8
      [] OTHER -> 9

\* The step at which the run stands: the steps before it are over.
StepAt(pc) ==
    CASE pc = "idle" -> 1
      [] pc = "ParseDateRange" -> 2
      [] pc = "FetchSchedules" -> 3
      [] pc = "MaybeSearchHolidays" -> 4
      [] pc = "MaybeSearchWeather" -> 5
      [] pc = "BuildPrompt" -> 6
      [] pc = "InvokeModel" -> 7
      [] pc = "ParseAndValidate" -> 8
      [] OTHER -> 9

\* C17: every run of run_recommendation_agent goes through FetchPersona,
\* ParseDateRange, FetchSchedules, MaybeSearchHolidays, MaybeSearchWeather,
\* BuildPrompt, InvokeModel, ParseAndValidate, Return in this order: each step
\* of the run moves it to a later step, no call is made twice, no call of a
\* step follows a call of a later step (the holiday search precedes the
\* weather search, both precede the call of the model), and once a step has
\* failed the run makes no further call.
C17_FixedStepOrder ==
    /\ [](/\ \A i, j \in DOMAIN rtrace :
               i < j => /\ StepOf(rtrace[i]) <= StepOf(rtrace[j])
                        /\ rtrace[i] # rtrace[j]
          /\ \A i \in DOMAIN rtrace :
               StepOf(rtrace[i]) < StepAt(rpc) \/ rpc = "done"
          /\ outcome.kind # "none" => rpc = "done")
    /\ [][/\ rpc' # rpc =>
               \/ StepAt(rpc') > StepAt(rpc)
               \/ rpc = "done" /\ rpc' = "idle"
          /\ outcome.kind = "error" => rtrace' \in {rtrace, <<>>}]_vars

\* A run has gone through all its steps, with both searches, and has returned
\* a recommendation.
C17_Witness ==
    /\ rpc = "done" /\ outcome.kind = "ok"
    /\ rtrace = <<"get_user_persona", "fromisoformat", "get_existing_schedules",
                  "search_public_holidays", "execute_web_search(holidays)",
                  "provider_request(holidays)", "search_weather_forecast",
                  "execute_web_search(weather)", "provider_request(weather)",
                  "build_final_prompt", "generate_content", "response.text",
                  "json.loads", "AIRecommendationResponse">>

\* What a search returns when it has found nothing to report.
SearchSentinels ==
    {NotConfiguredMsg, NoResultsMsg, UnexpectedMsg, HttpFailedMsg("403")}

\* C18: no outcome of the holiday search or of the weather search (provider
\* not configured, HTTP error, other error, no result) ends a run of
\* run_recommendation_agent: a run with a persona, valid dates and the key of
\* the model that has come to the searches goes on to call the model, no run
\* fails in a search, a search without a configured provider yields the "not
\* configured" sentinel, and the prompt carries what the searches returned.
C18_SearchFailureNeverAborts ==
    /\ [](/\ rfail # "search"
          /\ (Count(rtrace, "execute_web_search(holidays)") = 1 /\ ~searchConfigured)
                => holidays = NotConfiguredMsg
          /\ (Count(rtrace, "execute_web_search(weather)") = 1 /\ ~searchConfigured)
                => weather = NotConfiguredMsg
          /\ Count(rtrace, "build_final_prompt") = 1
                => prompt.holidays = holidays /\ prompt.weather = weather)
    /\ (rpc = "MaybeSearchHolidays" /\ gemini_api_key)
          ~> (Count(rtrace, "generate_content") = 1)

\* Both searches have failed, one with an HTTP error and one with another
\* error, and the model has been called with a prompt that carries the two
\* sentinels.
C18_Witness ==
    /\ Count(rtrace, "generate_content") = 1
    /\ Count(rtrace, "provider_request(holidays)") = 1
    /\ Count(rtrace, "provider_request(weather)") = 1
    /\ prompt.holidays = HttpFailedMsg("403")
    /\ prompt.weather = UnexpectedMsg
    /\ {prompt.holidays, prompt.weather} \subseteq SearchSentinels

\* The calls that leave the process: the model and the search provider.
ExternalCalls ==
    {"generate_content", "provider_request(holidays)", "provider_request(weather)"}

ExternalCount(trace) ==
    Cardinality({i \in DOMAIN trace : trace[i] \in ExternalCalls})

\* C19: nothing is tried again. In one call of run_recommendation_agent or of
\* run_persona_update_agent the model is called at most once, the holiday
\* search and the weather search send at most one request each, and a call
\* whose model call or whose validation of the response has failed ends in
\* error and makes no external call from then on.
C19_NoRetry ==
    /\ [](/\ Count(rtrace, "generate_content") <= 1
          /\ Count(utrace, "generate_content") <= 1
          /\ Count(rtrace, "provider_request(holidays)") <= 1
          /\ Count(rtrace, "provider_request(weather)") <= 1
          /\ rfail \in {"invocation", "validation"}
                => rpc = "done" /\ outcome.kind = "error"
          /\ (upc = "done" /\ uOutcome.kind = "error") => uOutcome.persona = NoPersona)
    /\ [][/\ rfail \in {"invocation", "validation"}
               => ExternalCount(rtrace') <= ExternalCount(rtrace)
          /\ uOutcome.kind = "error"
               => ExternalCount(utrace') <= ExternalCount(utrace)]_vars

\* A run has ended in error at the validation of the response, after one
\* request of each search (the holiday one answered with an HTTP error) and one
\* call of the model.
C19_Witness ==
    /\ rpc = "done" /\ rfail = "validation" /\ outcome.kind = "error"
    /\ holidays = HttpFailedMsg("403")
    /\ ExternalCount(rtrace) = 3
    /\ Count(rtrace, "generate_content") = 1

\* The text holds an outdoor keyword at some place, letter case set aside.
HasOutdoorKeyword(text) ==
    \E keyword \in OUTDOOR_KEYWORDS :
      \E i \in 1..Len(text) :
        /\ i + Len(keyword) - 1 <= Len(text)
        /\ \A j \in 1..Len(keyword) :
             lowerChar(text[i + j - 1]) = lowerChar(keyword[j])

\* C20: in a run whose persona has a location and whose request text holds no
\* outdoor keyword in any letter case, once the searches are over the holiday
\* search has been performed exactly once, no part of the weather search has
\* been performed, and the weather handed to the prompt is "Not available.
\* User location not set or not an outdoor activity.".
C20_NoKeywordNoWeather ==
    (LocationPresent /\ ~HasOutdoorKeyword(req.prompt) /\ SearchesDone) =>
        /\ Count(rtrace, "search_public_holidays") = 1
        /\ Count(rtrace, "execute_web_search(holidays)") = 1
        /\ \A ev \in Range(WeatherEvents) : Count(rtrace, ev) = 0
        /\ weather = WeatherNotSetMsg
        /\ Count(rtrace, "build_final_prompt") = 1
              => prompt.weather = WeatherNotSetMsg

\* A run for a persona with a location and the request "nap" has searched the
\* holidays and built its prompt.
C20_Witness ==
    /\ rpc = "InvokeModel"
    /\ LocationPresent
    /\ req.prompt = <<"n", "a", "p">>
    /\ Count(rtrace, "provider_request(holidays)") = 1
    /\ prompt.weather = WeatherNotSetMsg
    /\ prompt.holidays # HolidaysNotSetMsg

\* The three fields of a persona that run_persona_update_agent hands on as
\* it has read them.
KeptFields(p) ==
    [preferred_times |-> p.preferred_times,
     focus_duration |-> p.focus_duration,
     location |-> p.location]

\* The step of run_persona_update_agent that persists, taken after another
\* request has committed other values of the three fields than the run read.
PersistAfterConcurrentWrite ==
    /\ upc = "MergeAndPersist" /\ upc' = "done"
    /\ uInterleaved
    /\ KeptFields(get_persona(personas)) # KeptFields(uPersona)

\* C21 as stated: when another request has committed new preferred_times,
\* focus_duration or location between the read and the persist of
\* run_persona_update_agent, the row holds after the persist the values of the
\* three fields that the run read at its start.
C21_ConcurrentUpdateLost ==
    [][PersistAfterConcurrentWrite
         => KeptFields(get_persona(personas')) = KeptFields(uPersona)]_vars

\* C21: when another request has committed new preferred_times, focus_duration
\* or location between the read and the persist of run_persona_update_agent,
\* the row holds after the persist the values the other request wrote: the run
\* assigns the three values its session has loaded, so its commit writes none
\* of them. It writes the text: the row's persona_text is the output of the
\* model without the whitespace at its ends, or, when that is the text the run
\* read, the text the row held before the persist. The persona the run returns
\* is the row.
C21_ConcurrentUpdateKept ==
    [][PersistAfterConcurrentWrite
         => LET before == get_persona(personas)
                after == get_persona(personas')
            IN  /\ KeptFields(after) = KeptFields(before)
                /\ KeptFields(after) # KeptFields(uPersona)
                /\ after.id = before.id
                /\ \/ IsTrimOf(after.persona_text, uResponse)
                   \/ /\ IsTrimOf(uPersona.persona_text, uResponse)
                      /\ after.persona_text = before.persona_text
                /\ uOutcome'.persona = after]_vars

\* A run has persisted after another request has changed the location and the
\* preferred times it had read, and the row holds the other request's values
\* and the run's text.
C21_Witness ==
    /\ upc = "done" /\ uOutcome.kind = "ok" /\ uInterleaved
    /\ uPersona.location = DefaultPersona.location
    /\ get_persona(personas).location # uPersona.location
    /\ get_persona(personas).preferred_times # uPersona.preferred_times
    /\ get_persona(personas).persona_text # uPersona.persona_text
    /\ IsTrimOf(get_persona(personas).persona_text, uResponse)

\* C22: run_recommendation_agent looks at the key of the model only after it
\* has gathered the context and built the prompt. A run without the key, with
\* a persona and valid dates, fails with 500 "GEMINI_API_KEY is not
\* configured." and with nothing else, and by then it has fetched the
\* schedules, built the prompt, searched the holidays if the persona has a
\* location, and searched the weather if moreover the request has an outdoor
\* keyword; it has not called the model.
C22_KeyCheckedAfterContext ==
    /\ (rpc = "done" /\ ~gemini_api_key /\ rfail \notin {"persona_missing", "bad_date"})
         => rfail = "not_configured"
    /\ rfail = "not_configured" =>
         /\ rpc = "done" /\ ~gemini_api_key
         /\ outcome = Error(500, KeyNotConfiguredMsg)
         /\ Count(rtrace, "get_existing_schedules") = 1
         /\ Count(rtrace, "build_final_prompt") = 1
         /\ Count(rtrace, "generate_content") = 0
         /\ rtrace[Len(rtrace)] = "build_final_prompt"
         /\ LocationPresent => Count(rtrace, "search_public_holidays") = 1
         /\ (LocationPresent /\ HasOutdoorKeyword(req.prompt))
               => Count(rtrace, "search_weather_forecast") = 1

\* A run without the key has fetched the schedules, sent one request for the
\* holidays and one for the weather, built its prompt and failed.
C22_Witness ==
    /\ rpc = "done" /\ rfail = "not_configured" /\ ~gemini_api_key
    /\ LocationPresent /\ HasOutdoorKeyword(req.prompt)
    /\ rtrace = <<"get_user_persona", "fromisoformat", "get_existing_schedules",
                  "search_public_holidays", "execute_web_search(holidays)",
                  "provider_request(holidays)", "search_weather_forecast",
                  "execute_web_search(weather)", "provider_request(weather)",
                  "build_final_prompt">>

\* The four fields of a persona that a request can set.
PersonaFields(p) ==
    [persona_text |-> p.persona_text,
     preferred_times |-> p.preferred_times,
     focus_duration |-> p.focus_duration,
     location |-> p.location]

\* A call of run_persona_update_agent has failed at the model: the key is
\* absent or the call of the model has raised.
UpdFailedAtModel ==
    /\ upc = "done" /\ uOutcome.kind = "error"
    /\ Count(utrace, "build_persona_update_prompt") = 1

\* C23: run_persona_update_agent leaves the store as it is when it fails.
\* When the key is absent or the call of the model raises, the call ends with
\* an error of status 500 and has written nothing: no step of it but the
\* persist changes the personas, and, no other request having written in
\* between, the persona has the persona_text, preferred_times, focus_duration
\* and location that the call read at its start. The persona is written only
\* after the model has answered.
C23_UpdateFailureLeavesStore ==
    /\ [](/\ UpdFailedAtModel =>
               /\ uOutcome.status = 500
               /\ uOutcome.detail = KeyNotConfiguredMsg <=> ~gemini_api_key
               /\ Count(utrace, "generate_content") = 0 <=> ~gemini_api_key
               /\ Count(utrace, "create_or_update_persona") = 0
               /\ ~uInterleaved
                    => PersonaFields(get_persona(personas)) = PersonaFields(uPersona)
          /\ Count(utrace, "create_or_update_persona") = 1
               => /\ Count(utrace, "generate_content") = 1
                  /\ utrace[Len(utrace)] = "create_or_update_persona"
                  /\ uOutcome.kind = "ok")
    /\ [][(upc' # upc /\ upc # "MergeAndPersist") => personas' = personas]_vars

\* The call of the model has raised in a call that had read a persona with a
\* location, and the persona is as the call read it.
C23_Witness ==
    /\ UpdFailedAtModel /\ gemini_api_key /\ ~uInterleaved
    /\ Count(utrace, "generate_content") = 1
    /\ uOutcome.status = 500
    /\ get_persona(personas).location = DefaultPersona.location
    /\ PersonaFields(get_persona(personas)) = PersonaFields(uPersona)

\* The run has fetched the schedules of the requested period; no request
\* writes the store from then on to the end of the run.
SchedulesFetched ==
    \/ rpc \in {"MaybeSearchHolidays", "MaybeSearchWeather", "BuildPrompt",
                "InvokeModel", "ParseAndValidate"}
    \/ rpc = "done" /\ Count(rtrace, "get_existing_schedules") = 1

\* The row is in the list of existing schedules of the run.
Listed(row) == \E i \in DOMAIN rExisting : rExisting[i] = row

\* C24: the period of which run_recommendation_agent lists the schedules ends
\* at 00:00 of the end_date of the request. A stored schedule that starts on
\* end_date at a clock time after 00:00, or that ends after 00:00 of end_date,
\* is not in the list handed to the prompt; a stored schedule that starts at
\* or after 00:00 of start_date and ends at or before 00:00 of end_date is in
\* it.
C24_WindowEndsAtMidnight ==
    SchedulesFetched =>
        /\ rRange.end = req.end_date.day * HoursPerDay
        /\ \A row \in schedules :
             /\ (\/ /\ row.start_datetime > rRange.end
                    /\ row.start_datetime < rRange.end + HoursPerDay
                 \/ row.end_datetime > rRange.end)
                  => ~Listed(row)
             /\ (/\ row.start_datetime >= rRange.start
                 /\ row.end_datetime <= rRange.end)
                  => Listed(row)

\* The prompt of a run lists a schedule that starts at 09:00 of the end_date
\* of the request.
C24_Witness ==
    /\ rpc = "InvokeModel"
    /\ \E row \in schedules :
         /\ row.start_datetime = rRange.end + 9
         /\ Listed(row)
         /\ prompt.existing_schedules = format_schedules_for_prompt(<<row>>)

\* C25: whenever run_recommendation_agent fails at the call of the model or
\* at the parsing and validation of its response, the handler has written the
\* raw text of the response (or "No response" when there is none) to the log,
\* once, as its last call before the error reaches the caller, and the caller
\* gets the 500 "Failed to get recommendation from AI: ..." error.
C25_RawResponseLogged ==
    rfail \in {"invocation", "validation"} =>
        /\ rpc = "done"
        /\ Count(rtrace, "log_error") = 1
        /\ Count(rtrace, "log_raw_response") = 1
        /\ rtrace[Len(rtrace)] = "log_raw_response"
        /\ \E e \in {outcome.detail[2]} :
             outcome = Error(500, RecommendFailedMsg(e))

\* The model has answered with a response that has no text: the run has ended
\* with an exception of the handler itself and has logged no raw response.
C25_Witness ==
    /\ rpc = "done" /\ rfail = "invocation"
    /\ rtrace[Len(rtrace)] = "log_error"
    /\ Count(rtrace, "response.text") = 1
    /\ Count(rtrace, "log_raw_response") = 0
    /\ outcome = Unhandled

\* The date and the two times of an item of a bulk-create can be parsed.
ItemParses(item) ==
    /\ item.date.kind = "date"
    /\ item.start_time.kind = "time"
    /\ item.end_time.kind = "time"

\* C26: a bulk-create is all or nothing. If an item of the payload has a date
\* or a time that cannot be parsed, the request is answered with status 400
\* and the schedules of the store are what they were; otherwise the store
\* gains one schedule per item of the payload and loses none, the schedule of
\* each item having the item's title, date and times, is_ai_generated = TRUE
\* and ai_reason equal to the item's reason.
C26_BulkAllOrNothing ==
    [][bulk' # bulk =>
         LET payload == bulk'.payload
             new == schedules' \ schedules
         IN  IF \E i \in DOMAIN payload : ~ItemParses(payload[i])
             THEN /\ bulk'.status = 400
                  /\ schedules' = schedules
             ELSE /\ bulk'.status = 200
                  /\ schedules \subseteq schedules'
                  /\ Cardinality(new) = Len(payload)
                  /\ \A i \in DOMAIN payload :
                       \E row \in new :
                         /\ row.id = bulk'.first + i - 1
                         /\ row.title = payload[i].title
                         /\ row.start_datetime =
                              payload[i].date.day * HoursPerDay
                                + payload[i].start_time.hour
                         /\ row.end_datetime =
                              payload[i].date.day * HoursPerDay
                                + payload[i].end_time.hour
                         /\ row.is_ai_generated
                         /\ row.ai_reason = payload[i].reason
                         /\ ~row.is_completed]_vars

\* A bulk-create of two items, the first one well formed and the second one
\* with a time that cannot be parsed, has been answered with 400, and the store
\* holds no schedule generated by the AI.
C26_Witness ==
    /\ bulk.asked /\ bulk.status = 400
    /\ Len(bulk.payload) = 2
    /\ ItemParses(bulk.payload[1]) /\ ~ItemParses(bulk.payload[2])
    /\ schedules # {}
    /\ \A row \in schedules : ~row.is_ai_generated

====
